---- MODULE Spec2Model ----
(***************************************************************************)
(* Model of pyBackend/fine_tune.py: the SmartWordSelector (word list,      *)
(* embedding matrix, persisted embedding cache, top-k retrieval), the      *)
(* process-wide selector registry `selectors_cache` with get_selector, and *)
(* the request handlers that use them.                                     *)
(*                                                                         *)
(* External collaborators are modelled by what the code relies on:         *)
(*   - the file system: a map from paths to file contents;                 *)
(*   - SentenceTransformer.encode: a fixed table `Embed` from texts to     *)
(*     integer vectors, which may also fail (raise);                       *)
(*   - pickle: a cache file is absent, a complete (words, embeddings)      *)
(*     pair, or a file that was opened for writing and is not complete.    *)
(***************************************************************************)
EXTENDS Integers, Sequences, FiniteSets, TLC

\* ------------------------------------------------------------------ bounds
\* Number of request-handling threads of the (threaded) Flask server.
NThreads == 2
\* Longest word-list file, in lines, of the system specifications.
MaxLines == 2
\* Longest word-list file, in lines, of the retrieval specification.
MaxFindLines == 3
\* Largest top_k a request carries.
MaxTopK == 4
\* Longest phrase, in tokens, given to validate_phrase.
MaxTokens == 3
\* Most temporary audio files on disk at a time.
MaxTmp == 3
\* Most topics a /words-by-topics request carries.
MaxTopics == 2
\* Longest phrase, in tokens, whose percentage is scored.
MaxPhrase == 10

Threads == 1..NThreads

\* ------------------------------------------------------------ file system
\* A path is a directory and a file name; the name is its base followed by
\* its extensions, so that appending ".txt" and os.path.splitext are exact.
CurDir == "currated_words/german"
RootDir == "repo_root"
ExtDir == "/data/other"

PathOf(d, n) == [dir |-> d, name |-> n]
NoPath == PathOf("", <<>>)

default_words_file == PathOf(CurDir, <<"B1", ".txt">>)
legacy_words_file == PathOf(RootDir, <<"curated_words", ".txt">>)
literal_words_file == PathOf(CurDir, <<"B1">>)
external_words_file == PathOf(ExtDir, <<"B1", ".txt">>)

\* The word-list files that may exist on disk.
FilePaths ==
  {default_words_file, legacy_words_file, literal_words_file, external_words_file}

\* The content of a path that is no file.
NoFile == <<"<no such file>">>

isfile(files, p) == p \in FilePaths /\ files[p] # NoFile

\* The lines of a word-list file: a word, a word with surrounding blanks,
\* an empty line, a line of blanks.
Words == {"a", "b", "c"}
Lines == Words \cup {" a ", "", " "}

\* str.strip() on a line.
strip(line) ==
  CASE line = " a " -> "a"
    [] line = " " -> ""
    [] OTHER -> line

RECURSIVE SeqsUpTo(_, _)
SeqsUpTo(S, n) ==
  IF n = 0 THEN {<<>>}
  ELSE LET shorter == SeqsUpTo(S, n - 1)
       IN shorter \cup {Append(s, x) : s \in {q \in shorter : Len(q) = n - 1}, x \in S}

\* ------------------------------------------------------------- embeddings
\* SentenceTransformer.encode on one text: a fixed vector per text.
Embed(text) ==
  CASE text = "a" -> <<1, 0>>
    [] text = "b" -> <<0, 1>>
    [] text = "c" -> <<1, 1>>
    [] text = "wetter" -> <<2, 1>>
    [] text = "nacht" -> <<-1, 0>>
    [] OTHER -> <<1, -1>>

\* encode on a list of texts: one row per text, in order.
encode(texts) == [i \in 1..Len(texts) |-> Embed(texts[i])]

\* self.embeddings = None, the value before the first load: no matrix.
None == << <<>> >>

\* ------------------------------------------------- SmartWordSelector, pure
\* _load_words: [word.strip() for word in f.readlines() if word.strip()].
RECURSIVE StripNonBlank(_)
StripNonBlank(lines) ==
  IF lines = <<>> THEN <<>>
  ELSE LET w == strip(Head(lines))
           rest == StripNonBlank(Tail(lines))
       IN IF w # "" THEN <<w>> \o rest ELSE rest

\* curated_words_set = set(self.words)
SetOf(seq) == {seq[i] : i \in 1..Len(seq)}

Dot(u, v) == u[1] * v[1] + u[2] * v[2]

\* x |x|: the square of x with the sign of x.
SignedSquare(x) == IF x >= 0 THEN x * x ELSE -(x * x)

\* cosine(q, e1) <= cosine(q, e2) for non-zero vectors, in integers:
\* cos = q.e / (|q| |e|), compared after the monotone map x -> x |x|.
CosLeq(q, e1, e2) ==
  SignedSquare(Dot(q, e1)) * Dot(e2, e2) <= SignedSquare(Dot(q, e2)) * Dot(e1, e1)

\* np.argsort(similarities): every ascending order of the row indices; the
\* order of rows of equal similarity is not fixed by the sort.
ArgSorts(q, matrix) ==
  {p \in Permutations(1..Len(matrix)) :
     \A i, j \in 1..Len(matrix) : i < j => CosLeq(q, matrix[p[i]], matrix[p[j]])}

\* a[-top_k:] of Python: the last top_k elements, the whole of a when top_k
\* is 0 or at least len(a), a[|top_k|:] when top_k is negative.
LastSlice(a, top_k) ==
  LET n == Len(a)
      first == IF top_k > 0 THEN (IF top_k >= n THEN 1 ELSE n - top_k + 1)
               ELSE IF top_k = 0 THEN 1
               ELSE (IF -top_k >= n THEN n + 1 ELSE -top_k + 1)
  IN SubSeq(a, first, n)

\* a[::-1]
Reversed(a) == [i \in 1..Len(a) |-> a[Len(a) + 1 - i]]

\* The outcome of a call: a value, or an exception.
Returned(v) == [ok |-> TRUE, value |-> v, error |-> ""]
Raised(e) == [ok |-> FALSE, value |-> <<>>, error |-> e]

\* find_relevant_words for one order chosen by argsort. cosine_similarity
\* (sklearn's check_array) raises ValueError on a matrix without rows, and
\* on None; self.words[i] raises IndexError when i is no index of words.
RelevantWordsFor(words, top_indices) ==
  IF \E i \in 1..Len(top_indices) : top_indices[i] > Len(words)
  THEN Raised("IndexError")
  ELSE Returned([i \in 1..Len(top_indices) |-> words[top_indices[i]]])

\* A faulty variant of TopIndices that forgets the reversal [::-1]; C8
\* rejects it.
TopIndicesAscending(order, top_k) == LastSlice(order, top_k)

TopIndices(order, top_k) == Reversed(LastSlice(order, top_k))

\* The outcomes find_relevant_words can have on an instance.
find_relevant_words(words, embeddings, context, top_k) ==
  IF embeddings = None \/ Len(embeddings) = 0
  THEN {Raised("ValueError")}
  ELSE {RelevantWordsFor(words, TopIndices(order, top_k)) :
          order \in ArgSorts(Embed(context), embeddings)}

\* list(all_relevant_words): the elements of a set in some order.
Orderings(S) ==
  {q \in [1..Cardinality(S) -> S] : \A i, j \in 1..Cardinality(S) : i # j => q[i] # q[j]}

\* Lines 118-122: the set all_relevant_words after the loop over the
\* topics, or the exception of the first find_relevant_words that raises.
RECURSIVE AllRelevantWords(_, _, _, _)
AllRelevantWords(words, embeddings, topics, words_per_topic) ==
  IF topics = <<>> THEN {[ok |-> TRUE, value |-> {}, error |-> ""]}
  ELSE {IF ~head.ok THEN [ok |-> FALSE, value |-> {}, error |-> head.error]
        ELSE IF ~rest.ok THEN rest
        ELSE [ok |-> TRUE, value |-> SetOf(head.value) \cup rest.value, error |-> ""] :
          head \in find_relevant_words(words, embeddings, Head(topics), words_per_topic),
          rest \in AllRelevantWords(words, embeddings, Tail(topics), words_per_topic)}

\* A faulty variant of find_words_by_topics that appends the words of each
\* topic to a list instead of adding them to a set; C23 rejects it.
RECURSIVE find_words_by_topics_as_list(_, _, _, _)
find_words_by_topics_as_list(words, embeddings, topics, words_per_topic) ==
  IF topics = <<>> THEN {Returned(<<>>)}
  ELSE {IF ~head.ok THEN head
        ELSE IF ~rest.ok THEN rest
        ELSE Returned(head.value \o rest.value) :
          head \in find_relevant_words(words, embeddings, Head(topics), words_per_topic),
          rest \in find_words_by_topics_as_list(words, embeddings, Tail(topics),
                                                words_per_topic)}

\* The outcomes find_words_by_topics can have on an instance.
find_words_by_topics(words, embeddings, topics, words_per_topic) ==
  UNION {IF all.ok THEN {Returned(q) : q \in Orderings(all.value)}
         ELSE {Raised(all.error)} :
           all \in AllRelevantWords(words, embeddings, topics, words_per_topic)}

\* A token of spaCy's analysis of a phrase: its coarse part of speech
\* (token.pos_, a Universal POS tag) and its lemma (token.lemma_).
Token(pos, lemma) == [pos_ |-> pos, lemma_ |-> lemma]

\* The tags token.pos_ takes here: a noun, a numeral, punctuation, an
\* adposition.
PosTags == {"NOUN", "NUM", "PUNCT", "ADP"}

\* The lemmas of the phrases: "a", capitalised "B", and "x".
Lemmas == {"a", "B", "x"}

\* str.lower() on a lemma.
lower(lemma) == IF lemma = "B" THEN "b" ELSE lemma

\* The tags of line 145, whose tokens validate_phrase skips.
SkippedPos == {"PUNCT", "SYM", "X", "CD", "ADP"}

\* Lines 144-149: the tokens that are counted, in order.
RECURSIVE CountedTokens(_)
CountedTokens(doc) ==
  IF doc = <<>> THEN <<>>
  ELSE LET rest == CountedTokens(Tail(doc))
       IN IF Head(doc).pos_ \in SkippedPos THEN rest ELSE <<Head(doc)>> \o rest

\* A percentage as an exact fraction num / den, den > 0.
Fraction(n, d) == [num |-> n, den |-> d]

\* validate_phrase, lines 137-158: total_words counts the counted tokens,
\* number_of_exceptions the distinct lowercased lemmas of them that are not
\* in curated_words_set.
validate_phrase(curated_words_set, doc) ==
  LET counted == CountedTokens(doc)
      actual_words == {lower(counted[i].lemma_) : i \in 1..Len(counted)}
      total_words == Len(counted)
      number_of_exceptions == Cardinality(actual_words \ curated_words_set)
      valid_words == total_words - number_of_exceptions
  IN IF total_words = 0 THEN Fraction(0, 1)
     ELSE Fraction(valid_words * 100, total_words)

\* percentage >= n for a fraction.
AtLeast(percentage, n) == percentage.num >= n * percentage.den

\* A faulty variant of Score whose lower bounds are exclusive; C24 rejects
\* it.
ScoreExclusive(percentage) ==
  IF percentage.num > 90 * percentage.den THEN "excellent"
  ELSE IF percentage.num > 70 * percentage.den THEN "good"
  ELSE IF percentage.num > 50 * percentage.den THEN "fair"
  ELSE "poor"

\* The score of lines 551 and 592.
Score(percentage) ==
  IF AtLeast(percentage, 90) THEN "excellent"
  ELSE IF AtLeast(percentage, 70) THEN "good"
  ELSE IF AtLeast(percentage, 50) THEN "fair"
  ELSE "poor"

\* -------------------------------------------------------- lemma extraction
\* A string of lemmas_from_text is the sequence of its characters. The
\* letters here: capital "A" and lower-case "a" to "d".
Letters == {"A", "a", "b", "c", "d"}

\* str.lower().
str_lower(s) == [i \in 1..Len(s) |-> IF s[i] = "A" THEN "a" ELSE s[i]]

\* str.strip(): leading and trailing blanks removed.
RECURSIVE str_strip(_)
str_strip(s) ==
  IF s = <<>> THEN s
  ELSE IF Head(s) = " " THEN str_strip(Tail(s))
  ELSE IF s[Len(s)] = " " THEN str_strip(SubSeq(s, 1, Len(s) - 1))
  ELSE s

\* str.isalpha(): not empty and letters only.
isalpha(s) == s # <<>> /\ \A i \in 1..Len(s) : s[i] \in Letters

\* The code point of a character.
ord(c) ==
  CASE c = " " -> 32
    [] c = "," -> 44
    [] c = "1" -> 49
    [] c = "A" -> 65
    [] c = "a" -> 97
    [] c = "b" -> 98
    [] c = "c" -> 99
    [] c = "d" -> 100

\* u < v for Python strings: by code points, a proper prefix first.
RECURSIVE StrLess(_, _)
StrLess(u, v) ==
  IF v = <<>> THEN FALSE
  ELSE IF u = <<>> THEN TRUE
  ELSE IF Head(u) = Head(v) THEN StrLess(Tail(u), Tail(v))
  ELSE ord(Head(u)) < ord(Head(v))

\* A faulty variant of sorted that returns the greatest string first; C22
\* rejects it.
RECURSIVE SortedDescending(_)
SortedDescending(S) ==
  IF S = {} THEN <<>>
  ELSE LET greatest == CHOOSE x \in S : \A y \in S \ {x} : StrLess(y, x)
       IN <<greatest>> \o SortedDescending(S \ {greatest})

\* sorted() on a set of strings.
RECURSIVE sorted(_)
sorted(S) ==
  IF S = {} THEN <<>>
  ELSE LET least == CHOOSE x \in S : \A y \in S \ {x} : StrLess(x, y)
       IN <<least>> \o sorted(S \ {least})

\* A token of the spaCy analysis of a text: at most one of is_space,
\* is_punct, like_num and is_stop (flag names it, "" for none), its lemma
\* and its part of speech.
TextToken(flag, lemma, pos) ==
  [is_space |-> flag = "is_space", is_punct |-> flag = "is_punct",
   like_num |-> flag = "like_num", is_stop |-> flag = "is_stop",
   lemma_ |-> lemma, pos_ |-> pos]

\* The default of allowed_pos, lines 349 and 441.
DefaultPos == {"NOUN", "VERB", "ADJ", "ADV"}

\* lemmas_from_text, lines 358-380.
lemmas_from_text(text, min_len, allowed_pos) ==
  LET Lemma(token) == str_strip(str_lower(token.lemma_))
      Kept(token) ==
        /\ ~(token.is_space \/ token.is_punct \/ token.like_num)
        /\ ~token.is_stop
        /\ Lemma(token) # <<>>
        /\ isalpha(Lemma(token))
        /\ Len(Lemma(token)) >= min_len
        /\ token.pos_ \in allowed_pos
      unique_lemmas == {Lemma(text[i]) : i \in {j \in 1..Len(text) : Kept(text[j])}}
  IN sorted(unique_lemmas)

\* --------------------------------------------------------- path resolution
\* words_file of a request: None (or ""), a name relative to the curated
\* directory, or an absolute path.
NoId == [abs |-> FALSE, dir |-> "", name |-> <<>>]
RelId(n) == [abs |-> FALSE, dir |-> "", name |-> n]
AbsId(d, n) == [abs |-> TRUE, dir |-> d, name |-> n]

\* os.path.splitext(os.path.basename(words_path))[0] under embeddings/german
\* with ".pkl": the cache path is determined by the base name alone.
_safe_cache_path_for(words_path) ==
  IF Len(words_path.name) > 1
  THEN SubSeq(words_path.name, 1, Len(words_path.name) - 1)
  ELSE words_path.name

CachePaths == {_safe_cache_path_for(p) : p \in FilePaths}

\* The path get_selector resolves words_file to; NoPath: FileNotFoundError.
\* A faulty variant of ResolveDefault that prefers the legacy file; C14
\* rejects it.
ResolveDefaultLegacyFirst(files) ==
  IF isfile(files, legacy_words_file) THEN legacy_words_file
  ELSE IF isfile(files, default_words_file) THEN default_words_file
  ELSE NoPath

ResolveDefault(files) ==
  IF isfile(files, default_words_file) THEN default_words_file
  ELSE IF isfile(files, legacy_words_file) THEN legacy_words_file
  ELSE NoPath

\* A faulty variant of ResolveNamed that tries the name with ".txt" before the
\* literal name; C13 rejects it.
ResolveNamedSuffixFirst(files, words_file) ==
  LET target == IF words_file.abs THEN PathOf(words_file.dir, words_file.name)
                ELSE PathOf(CurDir, words_file.name)
      alt == PathOf(target.dir, Append(target.name, ".txt"))
  IN IF isfile(files, alt) THEN alt
     ELSE IF isfile(files, target) THEN target
     ELSE NoPath

ResolveNamed(files, words_file) ==
  LET target == IF words_file.abs THEN PathOf(words_file.dir, words_file.name)
                ELSE PathOf(CurDir, words_file.name)
      alt == PathOf(target.dir, Append(target.name, ".txt"))
  IN IF isfile(files, target) THEN target
     ELSE IF isfile(files, alt) THEN alt
     ELSE NoPath

ResolvePath(files, words_file) ==
  IF words_file = NoId THEN ResolveDefault(files) ELSE ResolveNamed(files, words_file)

\* ------------------------------------------------------------------ state
VARIABLES
  fs,               \* the word-list files: FilePaths -> lines, or NoFile
  pkl,              \* the embedding-cache files: CachePaths -> cache file
  selectors_cache,  \* the registry: FilePaths -> instance id, 0 when absent
  heap,             \* the SmartWordSelector objects, by instance id
  th,               \* per thread: the request it handles and where it is
  constructions,    \* per path: SmartWordSelector(...) calls that returned
  tmpfiles          \* the temporary audio files that exist on disk

vars == <<fs, pkl, selectors_cache, heap, th, constructions, tmpfiles>>

\* One object per registry key and one per thread constructing.
MaxInst == Cardinality(FilePaths) + NThreads
InstIds == 1..MaxInst

\* A cache file: absent, complete (pickle.load returns the pair), or opened
\* for writing and not completely written (pickle.load raises).
NoCache == [st |-> "absent", words |-> <<>>, embeddings |-> <<>>]
Partial == [st |-> "partial", words |-> <<>>, embeddings |-> <<>>]
Entry(w, e) == [st |-> "ok", words |-> w, embeddings |-> e]

\* A SmartWordSelector object; Free: no object has this id.
Free == [curated_words_path |-> NoPath, cache_path |-> <<>>,
         words |-> <<>>, embeddings |-> None]
Selector(path, cache, w, e) ==
  [curated_words_path |-> path, cache_path |-> cache, words |-> w, embeddings |-> e]

\* Requests. op: "find" (POST /relevant-words), "load" (POST /embeddings/load),
\* "build" (POST /build-dictionary-from-pdf, words: the lemmas of the PDF;
\* text: the tokens of the PDF's text, with min_len and allowed_pos, where the
\* lemmas are extracted from them).
NoReq == [op |-> "", words_file |-> NoId, context |-> "", top_k |-> 0,
          words |-> <<>>, save |-> FALSE, refresh_embeddings |-> FALSE,
          phrase |-> <<>>, audio |-> "", topics |-> <<>>,
          valid |-> TRUE, pdf |-> TRUE, fault |-> "",
          text |-> <<>>, min_len |-> 3, allowed_pos |-> DefaultPos]
FindReq(f, c, k) == [NoReq EXCEPT !.op = "find", !.words_file = f, !.context = c, !.top_k = k]
LoadReq(f) == [NoReq EXCEPT !.op = "load", !.words_file = f]
BuildReq(w, s, r) ==
  [NoReq EXCEPT !.op = "build", !.words = w, !.save = s, !.refresh_embeddings = r]
\* "validate" (POST /validate-phrase, phrase: the tokens spaCy finds in it).
ValidateReq(f, doc) == [NoReq EXCEPT !.op = "validate", !.words_file = f, !.phrase = doc]

\* "topics" (POST /words-by-topics), "analyze" (POST
\* /analyze-with-suggestions), "status" (GET /embeddings/status),
\* "dictionaries" (GET /dictionaries), "health" (GET /health).
TopicsReq(f, cs, k) ==
  [NoReq EXCEPT !.op = "topics", !.words_file = f, !.topics = cs, !.top_k = k]
AnalyzeReq(f, c, doc, k) ==
  [NoReq EXCEPT !.op = "analyze", !.words_file = f, !.context = c, !.phrase = doc, !.top_k = k]
StatusReq(f) == [NoReq EXCEPT !.op = "status", !.words_file = f]
GetReq(op) == [NoReq EXCEPT !.op = op]
\* A request without a required field (valid: FALSE), a build request that
\* names a PDF that is no file (pdf: FALSE), a request during which a
\* collaborator fails (fault: which one).
Invalid(r) == [r EXCEPT !.valid = FALSE]
WithoutPdf(r) == [r EXCEPT !.pdf = FALSE]
WithFault(r, f) == [r EXCEPT !.fault = f]
Faults == {"embedding", "lemmatizer", "pdf_reader", "file_system"}

\* "speech" (POST /speech-to-text, audio: "none" without an audio part,
\* "unnamed" with an empty filename, or the kind of the uploaded file).
SpeechReq(a) == [NoReq EXCEPT !.op = "speech", !.audio = a]

\* Responses: the HTTP status and what the JSON body carries.
NoResp == [status |-> 0, body |-> "", words |-> <<>>, error |-> "", warning |-> "",
           percentage |-> Fraction(0, 1), score |-> "", count |-> 0,
           listed |-> {}, in_memory |-> {}, loaded_levels |-> {}]
Ok(body, w) == [NoResp EXCEPT !.status = 200, !.body = body, !.words = w]
\* The body of /relevant-words and /words-by-topics, lines 407-410 and
\* 517-520: the words and their number.
RelevantWords(w) == [Ok("relevant_words", w) EXCEPT !.count = Len(w)]
Error(code, e) == [NoResp EXCEPT !.status = code, !.body = "error", !.error = e]
\* The body of /validate-phrase, lines 548-552.
Validation(percentage) ==
  [Ok("validation", <<>>) EXCEPT !.percentage = percentage, !.score = Score(percentage)]

Idle == [pc |-> "idle", req |-> NoReq, inst |-> 0, path |-> NoPath, reload |-> FALSE,
         cache_data |-> NoCache, clash |-> FALSE, temp_path |-> 0, resp |-> NoResp]

\* The inputs of the system specifications.
SysWords == {"a", "b"}
FileContents == SeqsUpTo(SysWords, MaxLines)
Identifiers ==
  {NoId, RelId(<<"B1">>), RelId(<<"B1", ".txt">>),
   AbsId(CurDir, <<"B1", ".txt">>), AbsId(ExtDir, <<"B1", ".txt">>)}
Contexts == {"wetter"}
TopKs == {1, MaxTopK}
\* lemmas_from_text returns a sorted list without duplicates.
PdfLemmas == {<<>>, <<"a">>, <<"b">>, <<"a", "b">>}
Requests ==
  {FindReq(f, c, k) : f \in Identifiers, c \in Contexts, k \in TopKs}
  \cup {LoadReq(f) : f \in Identifiers}
  \cup {BuildReq(w, s, r) : w \in PdfLemmas, s \in BOOLEAN, r \in BOOLEAN}

\* build_dictionary_from_pdf's out_path for out_file "B1.txt".
out_path == default_words_file

\* setup_embeddings.create_embeddings on a fresh embeddings directory: one
\* SmartWordSelector per .txt file of the curated directory.
create_embeddings(files) ==
  [c \in CachePaths |->
     IF c = _safe_cache_path_for(default_words_file) /\ isfile(files, default_words_file)
     THEN Entry(StripNonBlank(files[default_words_file]),
                encode(StripNonBlank(files[default_words_file])))
     ELSE NoCache]

InitFiles ==
  {f \in [FilePaths -> FileContents \cup {NoFile}] :
     /\ f[legacy_words_file] = NoFile
     /\ f[literal_words_file] = NoFile
     /\ f[external_words_file] \in {NoFile, <<"b", "a">>}}

Init ==
  /\ fs \in InitFiles
  /\ pkl \in {[c \in CachePaths |-> NoCache], create_embeddings(fs)}
  /\ selectors_cache = [p \in FilePaths |-> 0]
  /\ heap = [i \in InstIds |-> Free]
  /\ th = [t \in Threads |-> Idle]
  /\ constructions = [p \in FilePaths |-> 0]
  /\ tmpfiles = {}

\* ---------------------------------------------------------------- helpers
Self(t) == heap[th[t].inst]

\* Objects nothing refers to any more are dropped.
Referenced(reg, threads, i) ==
  (\E p \in FilePaths : reg[p] = i) \/ (\E t \in Threads : threads[t].inst = i)
Collect(h, reg, threads) ==
  [i \in InstIds |-> IF Referenced(reg, threads, i) THEN h[i] ELSE Free]

FreshId == CHOOSE i \in InstIds : heap[i] = Free /\ \A j \in InstIds : heap[j] = Free => i <= j

\* A faulty variant of Failed without the handlers' except clauses: the
\* server's own 500 page, no JSON body; C17 rejects it.
FailedUncaught(t, e) == [th[t] EXCEPT !.pc = "done", !.resp = [NoResp EXCEPT !.status = 500]]

\* A faulty variant of Failed without the inner except clause of lines
\* 473-479: a failed reload fails the request; C18 rejects it.
FailedWith500(t, e) == [th[t] EXCEPT !.pc = "done", !.resp = Error(500, e)]

\* The handler's response to an exception: build_dictionary_from_pdf catches
\* a failed reload and answers 200 with a warning; every other handler
\* answers 500 with the error.
Failed(t, e) ==
  IF th[t].reload
  THEN [th[t] EXCEPT !.pc = "done", !.resp = [Ok("warning", th[t].req.words) EXCEPT !.warning = e]]
  ELSE [th[t] EXCEPT !.pc = "done", !.inst = 0, !.resp = Error(500, e)]

\* Where a handler goes on once get_selector has returned (words_file is
\* not read again; embeddings_load alone keeps it, for its answer).
AfterSelector(t, i) ==
  IF th[t].req.op = "find"
  THEN [th[t] EXCEPT !.pc = "find_relevant_words", !.inst = i, !.req.words_file = NoId]
  ELSE IF th[t].req.op = "validate"
  THEN [th[t] EXCEPT !.pc = "validate_phrase", !.inst = i, !.req.words_file = NoId]
  ELSE IF th[t].req.op = "topics"
  THEN [th[t] EXCEPT !.pc = "find_words_by_topics", !.inst = i, !.req.words_file = NoId]
  ELSE IF th[t].req.op = "analyze"
  THEN [th[t] EXCEPT !.pc = "analyze", !.inst = i, !.req.words_file = NoId]
  ELSE [th[t] EXCEPT !.pc = "done", !.inst = i, !.resp = Ok("loaded", heap[i].words)]

\* ---------------------------------------------------------------- actions
\* Where the handler of a request goes after its checks.
FirstStep(op) ==
  IF op \in {"build", "speech", "status", "dictionaries", "health"} THEN op
  ELSE "get_selector"

\* A request arrives and its handler checks it: 400 without a required
\* field (embeddings_load and embeddings_status: without words_file), 404
\* from build_dictionary_from_pdf when the PDF is no file.
Accept(t, r) ==
  IF r.op \in {"load", "status"} /\ r.words_file = NoId
  THEN [th[t] EXCEPT !.pc = "done", !.req = r, !.resp = Error(400, "words_file is required")]
  ELSE IF ~r.valid
  THEN [th[t] EXCEPT !.pc = "done", !.req = r, !.resp = Error(400, "required field missing")]
  ELSE IF r.op = "build" /\ ~r.pdf
  THEN [th[t] EXCEPT !.pc = "done", !.req = r, !.resp = Error(404, "File not found")]
  ELSE [th[t] EXCEPT !.pc = FirstStep(r.op), !.req = r]

Receive(t) ==
  /\ th[t].pc = "idle"
  /\ \E r \in Requests : th' = [th EXCEPT ![t] = Accept(t, r)]
  /\ UNCHANGED <<fs, pkl, selectors_cache, heap, constructions, tmpfiles>>

\* A faulty variant of get_selector without the registry lookup of line
\* 212: it constructs on every call; C4 rejects it.
get_selector_unmemoized(t) ==
  /\ th[t].pc = "get_selector"
  /\ LET target_path == ResolvePath(fs, th[t].req.words_file)
     IN th' = [th EXCEPT ![t] =
                 IF target_path = NoPath THEN Failed(t, "FileNotFoundError")
                 ELSE [@ EXCEPT !.pc = "_load_words", !.path = target_path,
                                !.req.words_file = IF th[t].req.op = "load" THEN @ ELSE NoId]]
  /\ UNCHANGED <<fs, pkl, selectors_cache, heap, constructions, tmpfiles>>

\* get_selector up to the registry lookup: resolve the path, raise
\* FileNotFoundError, return the registered instance, or go on to construct.
get_selector(t) ==
  /\ th[t].pc = "get_selector"
  /\ LET target_path == ResolvePath(fs, th[t].req.words_file)
     IN th' = [th EXCEPT ![t] =
                 IF target_path = NoPath THEN Failed(t, "FileNotFoundError")
                 ELSE IF selectors_cache[target_path] # 0
                 THEN AfterSelector(t, selectors_cache[target_path])
                 ELSE [@ EXCEPT !.pc = "_load_words", !.path = target_path,
                                !.req.words_file = IF th[t].req.op = "load" THEN @ ELSE NoId]]
  /\ UNCHANGED <<fs, pkl, selectors_cache, heap, constructions, tmpfiles>>

\* A faulty variant of _load_words in which a new object is stored in the
\* registry as soon as its word list is read; C26 rejects it.
_load_words_registered_early(t) ==
  /\ th[t].pc = "_load_words"
  /\ IF th[t].req.fault = "file_system"
     THEN /\ th' = [th EXCEPT ![t] = Failed(t, "OSError")]
          /\ heap' = heap
          /\ selectors_cache' = selectors_cache
     ELSE IF th[t].reload
     THEN /\ heap' = [heap EXCEPT ![th[t].inst].words =
                        StripNonBlank(fs[heap[th[t].inst].curated_words_path])]
          /\ th' = [th EXCEPT ![t].pc = "_load_or_create_embeddings"]
          /\ selectors_cache' = selectors_cache
     ELSE /\ \E i \in InstIds : heap[i] = Free
          /\ heap' = [heap EXCEPT ![FreshId] =
                        Selector(th[t].path, _safe_cache_path_for(th[t].path),
                                 StripNonBlank(fs[th[t].path]), None)]
          /\ th' = [th EXCEPT ![t].pc = "_load_or_create_embeddings", ![t].inst = FreshId]
          /\ selectors_cache' = [selectors_cache EXCEPT ![th[t].path] = FreshId]
  /\ UNCHANGED <<fs, pkl, constructions, tmpfiles>>

\* __init__ up to and including _load_words (a new object, known to this
\* thread alone), or reload_from_disk's _load_words on a registered object.
_load_words(t) ==
  /\ th[t].pc = "_load_words"
  /\ IF th[t].req.fault = "file_system"
     THEN /\ th' = [th EXCEPT ![t] = Failed(t, "OSError")]
          /\ heap' = heap
     ELSE IF th[t].reload
     THEN /\ heap' = [heap EXCEPT ![th[t].inst].words =
                        StripNonBlank(fs[heap[th[t].inst].curated_words_path])]
          /\ th' = [th EXCEPT ![t].pc = "_load_or_create_embeddings"]
     ELSE /\ \E i \in InstIds : heap[i] = Free
          /\ heap' = [heap EXCEPT ![FreshId] =
                        Selector(th[t].path, _safe_cache_path_for(th[t].path),
                                 StripNonBlank(fs[th[t].path]), None)]
          /\ th' = [th EXCEPT ![t].pc = "_load_or_create_embeddings", ![t].inst = FreshId]
  /\ UNCHANGED <<fs, pkl, selectors_cache, constructions, tmpfiles>>

\* Where the thread goes when _load_or_create_embeddings returns.
Loaded(t) ==
  IF th[t].reload
  THEN [th[t] EXCEPT !.pc = "done", !.resp = Ok("saved", th[t].req.words)]
  ELSE [th[t] EXCEPT !.pc = "register"]

\* Faulty variants of the test of line 67: by length alone (C2 rejects it),
\* and without regard to order (C10 rejects it).
CacheMatchesByLength(cache_data, words) == Len(cache_data.words) = Len(words)
CacheMatchesAsSets(cache_data, words) == SetOf(cache_data.words) = SetOf(words)

\* The test of line 67: the stored word list against the current one.
CacheMatches(cache_data, words) == cache_data.words = words

\* _load_or_create_embeddings, lines 63-70: reuse the cached matrix when the
\* cache file exists and holds the current word list.
_load_or_create_embeddings(t) ==
  /\ th[t].pc = "_load_or_create_embeddings"
  /\ LET cache_data == pkl[Self(t).cache_path]
     IN IF cache_data.st = "partial"
        THEN /\ th' = [th EXCEPT ![t] = Failed(t, "UnpicklingError")]
             /\ heap' = Collect(heap, selectors_cache, th')
        ELSE IF cache_data.st = "ok" /\ CacheMatches(cache_data, Self(t).words)
        THEN /\ heap' = [heap EXCEPT ![th[t].inst].embeddings = cache_data.embeddings]
             /\ th' = [th EXCEPT ![t] = Loaded(t)]
        ELSE /\ th' = [th EXCEPT ![t].pc = "encode"]
             /\ heap' = heap
  /\ UNCHANGED <<fs, pkl, selectors_cache, constructions, tmpfiles>>

\* Line 73: self.embeddings = self.model.encode(self.words), or encode raises.
Encode(t) ==
  /\ th[t].pc = "encode"
  /\ \E raises \in BOOLEAN :
       IF raises
       THEN /\ th' = [th EXCEPT ![t] = Failed(t, "ServiceUnavailable")]
            /\ heap' = Collect(heap, selectors_cache, th')
       ELSE /\ heap' = [heap EXCEPT ![th[t].inst].embeddings = encode(Self(t).words)]
            /\ th' = [th EXCEPT ![t].pc = "open_cache"]
  /\ UNCHANGED <<fs, pkl, selectors_cache, constructions, tmpfiles>>

\* The threads that have the cache file open for writing.
Writers(cache_path) ==
  {u \in Threads : th[u].pc = "dump" /\ heap[th[u].inst].cache_path = cache_path}

\* Lines 76-80: cache_data is built from self.words and self.embeddings and
\* open(cache_path, 'wb') truncates the file. Writers of different data to
\* the same file are marked: their bytes can mix.
OpenCache(t) ==
  /\ th[t].pc = "open_cache"
  /\ LET cache_data == Entry(Self(t).words, Self(t).embeddings)
         others == {u \in Writers(Self(t).cache_path) : th[u].cache_data # cache_data}
     IN th' = [u \in Threads |->
                 IF u = t
                 THEN [th[t] EXCEPT !.pc = "dump", !.cache_data = cache_data,
                                    !.clash = (others # {})]
                 ELSE IF u \in others THEN [th[u] EXCEPT !.clash = TRUE]
                 ELSE th[u]]
  /\ pkl' = [pkl EXCEPT ![Self(t).cache_path] = Partial]
  /\ UNCHANGED <<fs, selectors_cache, heap, constructions, tmpfiles>>

\* What the cache file holds when this writer closes it: still incomplete
\* while another writer has it open; this writer's pair; or, after writers
\* of different data overlapped, possibly a mix no pickle.load accepts.
DumpResults(t) ==
  IF Writers(Self(t).cache_path) \ {t} # {} THEN {Partial}
  ELSE IF th[t].clash THEN {th[t].cache_data, Partial}
  ELSE {th[t].cache_data}

\* Lines 80-82: pickle.dump completes and the file is closed.
Dump(t) ==
  /\ th[t].pc = "dump"
  /\ \E result \in DumpResults(t) : pkl' = [pkl EXCEPT ![Self(t).cache_path] = result]
  /\ th' = [th EXCEPT ![t] = [Loaded(t) EXCEPT !.cache_data = NoCache, !.clash = FALSE]]
  /\ UNCHANGED <<fs, selectors_cache, heap, constructions, tmpfiles>>

\* Lines 194-196 and 216-218: the constructor has returned; the object is
\* stored under its path and returned to the handler.
Register(t) ==
  /\ th[t].pc = "register"
  /\ selectors_cache' = [selectors_cache EXCEPT ![th[t].path] = th[t].inst]
  /\ constructions' = [constructions EXCEPT ![th[t].path] = @ + 1]
  /\ th' = [th EXCEPT ![t] = AfterSelector(t, th[t].inst)]
  /\ heap' = Collect(heap, selectors_cache', th')
  /\ UNCHANGED <<fs, pkl, tmpfiles>>

\* get_relevant_words, lines 403-411: find_relevant_words on the selector;
\* encode(context) raises when the embedding model fails.
get_relevant_words(t) ==
  /\ th[t].pc = "find_relevant_words"
  /\ \E out \in find_relevant_words(Self(t).words, Self(t).embeddings,
                                    th[t].req.context, th[t].req.top_k) :
       th' = [th EXCEPT ![t] =
                [@ EXCEPT !.pc = "done",
                          !.resp = IF th[t].req.fault = "embedding"
                                   THEN Error(500, "ServiceUnavailable")
                                   ELSE IF out.ok THEN RelevantWords(out.value)
                                   ELSE Error(500, out.error)]]
  /\ UNCHANGED <<fs, pkl, selectors_cache, heap, constructions, tmpfiles>>

\* validate_phrase_endpoint, lines 546-552: validate_phrase on the selector
\* (curated_words_set is set(self.words), assigned with self.words).
validate_phrase_endpoint(t) ==
  /\ th[t].pc = "validate_phrase"
  /\ th' = [th EXCEPT ![t] =
              [@ EXCEPT !.pc = "done",
                        !.resp = IF th[t].req.fault = "lemmatizer"
                                 THEN Error(500, "LemmatizerError")
                                 ELSE Validation(validate_phrase(SetOf(Self(t).words),
                                                                 th[t].req.phrase))]]
  /\ UNCHANGED <<fs, pkl, selectors_cache, heap, constructions, tmpfiles>>

\* get_words_by_topics, lines 514-520: find_words_by_topics on the selector.
get_words_by_topics(t) ==
  /\ th[t].pc = "find_words_by_topics"
  /\ \E out \in find_words_by_topics(Self(t).words, Self(t).embeddings,
                                     th[t].req.topics, th[t].req.top_k) :
       th' = [th EXCEPT ![t] =
                [@ EXCEPT !.pc = "done",
                          !.resp = IF th[t].req.fault = "embedding" /\ th[t].req.topics # <<>>
                                   THEN Error(500, "ServiceUnavailable")
                                   ELSE IF out.ok THEN RelevantWords(out.value)
                                   ELSE Error(500, out.error)]]
  /\ UNCHANGED <<fs, pkl, selectors_cache, heap, constructions, tmpfiles>>

\* analyze_with_suggestions, lines 578-594: find_relevant_words, then
\* validate_phrase, on the selector.
analyze_with_suggestions(t) ==
  /\ th[t].pc = "analyze"
  /\ \E out \in find_relevant_words(Self(t).words, Self(t).embeddings,
                                    th[t].req.context, th[t].req.top_k) :
       th' = [th EXCEPT ![t] =
                [@ EXCEPT !.pc = "done",
                          !.resp = IF th[t].req.fault = "embedding"
                                   THEN Error(500, "ServiceUnavailable")
                                   ELSE IF ~out.ok THEN Error(500, out.error)
                                   ELSE IF th[t].req.fault = "lemmatizer"
                                   THEN Error(500, "LemmatizerError")
                                   ELSE [Validation(validate_phrase(SetOf(Self(t).words),
                                                                    th[t].req.phrase))
                                           EXCEPT !.body = "analysis", !.words = out.value]]]
  /\ UNCHANGED <<fs, pkl, selectors_cache, heap, constructions, tmpfiles>>

\* The body of /embeddings/status, lines 270-285: txt_path (listed) and
\* whether it is in memory.
Status(target_path, in_memory) ==
  [Ok("status", <<>>) EXCEPT !.listed = {target_path},
                             !.in_memory = IF in_memory THEN {target_path} ELSE {}]

\* A faulty variant of embeddings_status that asks get_selector for the
\* dictionary; C25 rejects it.
embeddings_status_by_get_selector(t) ==
  /\ th[t].pc = "status"
  /\ th' = [th EXCEPT ![t].pc = "get_selector"]
  /\ UNCHANGED <<fs, pkl, selectors_cache, heap, constructions, tmpfiles>>

\* embeddings_status, lines 258-287: the path is resolved as get_selector
\* resolves a name, 404 when it is no file; nothing is constructed.
embeddings_status(t) ==
  /\ th[t].pc = "status"
  /\ LET target_path == ResolveNamed(fs, th[t].req.words_file)
         in_memory == selectors_cache[target_path] # 0
     IN th' = [th EXCEPT ![t] =
                 [@ EXCEPT !.pc = "done",
                           !.resp = IF target_path = NoPath
                                    THEN Error(404, "Dictionary file not found")
                                    ELSE Status(target_path, in_memory)]]
  /\ UNCHANGED <<fs, pkl, selectors_cache, heap, constructions, tmpfiles>>

\* list_dictionaries, lines 220-242: the files of the curated directory
\* whose name ends in ".txt" (listed), and those of them whose path is a
\* key of selectors_cache (in_memory).
list_dictionaries ==
  LET txt_paths == {p \in FilePaths : /\ p.dir = CurDir /\ isfile(fs, p)
                                      /\ p.name[Len(p.name)] = ".txt"}
  IN [Ok("dictionaries", <<>>)
        EXCEPT !.listed = txt_paths,
               !.in_memory = {p \in txt_paths : selectors_cache[p] # 0}]

\* list_dictionaries_endpoint, lines 245-249: the curated directory is
\* listed, or os.listdir raises.
list_dictionaries_endpoint(t) ==
  /\ th[t].pc = "dictionaries"
  /\ th' = [th EXCEPT ![t] =
              [@ EXCEPT !.pc = "done",
                        !.resp = IF th[t].req.fault = "file_system" THEN Error(500, "OSError")
                                 ELSE list_dictionaries]]
  /\ UNCHANGED <<fs, pkl, selectors_cache, heap, constructions, tmpfiles>>

\* health_check, lines 655-664: loaded_levels, the base names of the keys
\* of selectors_cache, and their number.
health_check(t) ==
  /\ th[t].pc = "health"
  /\ LET keys == {p \in FilePaths : selectors_cache[p] # 0}
     IN th' = [th EXCEPT ![t].pc = "done",
                         ![t].resp = [Ok("healthy", <<>>)
                                        EXCEPT !.loaded_levels = {p.name : p \in keys},
                                               !.count = Cardinality(keys)]]
  /\ UNCHANGED <<fs, pkl, selectors_cache, heap, constructions, tmpfiles>>

\* build_dictionary_from_pdf, lines 429-458: without save the lemmas are
\* returned; with save, open(out_path, 'w') truncates the word-list file.
build_dictionary_from_pdf(t) ==
  /\ th[t].pc = "build"
  /\ IF th[t].req.fault \in {"pdf_reader", "lemmatizer"}
        \/ (th[t].req.save /\ th[t].req.fault = "file_system")
     THEN /\ fs' = fs
          /\ th' = [th EXCEPT ![t] = Failed(t, th[t].req.fault)]
     ELSE IF th[t].req.save
     THEN /\ fs' = [fs EXCEPT ![out_path] = <<>>]
          /\ th' = [th EXCEPT ![t].pc = "write_words"]
     ELSE /\ fs' = fs
          /\ th' = [th EXCEPT ![t].pc = "done", ![t].resp = Ok("words", th[t].req.words)]
  /\ UNCHANGED <<pkl, selectors_cache, heap, constructions, tmpfiles>>

\* A faulty variant of WriteWords that reloads the registered selector
\* whether or not refresh_embeddings was asked for; C3 rejects it.
WriteWordsAndReload(t) ==
  /\ th[t].pc = "write_words"
  /\ fs' = [fs EXCEPT ![out_path] = th[t].req.words]
  /\ th' = [th EXCEPT ![t] =
              IF selectors_cache[out_path] # 0
              THEN [@ EXCEPT !.pc = "_load_words", !.inst = selectors_cache[out_path],
                             !.reload = TRUE]
              ELSE [@ EXCEPT !.pc = "done", !.resp = Ok("saved", th[t].req.words)]]
  /\ UNCHANGED <<pkl, selectors_cache, heap, constructions, tmpfiles>>

\* Lines 459-472: the lemmas are written, one per line; with
\* refresh_embeddings the registered selector of out_path, if there is one,
\* starts reload_from_disk.
WriteWords(t) ==
  /\ th[t].pc = "write_words"
  /\ fs' = [fs EXCEPT ![out_path] = th[t].req.words]
  /\ th' = [th EXCEPT ![t] =
              IF th[t].req.refresh_embeddings /\ selectors_cache[out_path] # 0
              THEN [@ EXCEPT !.pc = "_load_words", !.inst = selectors_cache[out_path],
                             !.reload = TRUE]
              ELSE [@ EXCEPT !.pc = "done", !.resp = Ok("saved", th[t].req.words)]]
  /\ UNCHANGED <<pkl, selectors_cache, heap, constructions, tmpfiles>>

\* A name tempfile.NamedTemporaryFile picks: a random one that no existing
\* file has; here also none a request in flight has used.
TempNames == 1..(MaxTmp + NThreads)
UnusedTemp == TempNames \ (tmpfiles \cup {th[u].temp_path : u \in Threads})
FreshTemp == CHOOSE n \in UnusedTemp : \A m \in UnusedTemp : n <= m

\* speech_to_text, lines 606-627: 400 without an audio part or with an
\* empty filename; otherwise NamedTemporaryFile(delete=False) creates the
\* temporary file (or raises, and no file exists).
speech_to_text(t) ==
  /\ th[t].pc = "speech"
  /\ IF th[t].req.audio = "none"
     THEN /\ th' = [th EXCEPT ![t].pc = "done", ![t].resp = Error(400, "No audio file provided")]
          /\ tmpfiles' = tmpfiles
     ELSE IF th[t].req.audio = "unnamed"
     THEN /\ th' = [th EXCEPT ![t].pc = "done", ![t].resp = Error(400, "No audio file selected")]
          /\ tmpfiles' = tmpfiles
     ELSE \E raises \in BOOLEAN :
            IF raises
            THEN /\ th' = [th EXCEPT ![t].pc = "done", ![t].resp = Error(500, "OSError")]
                 /\ tmpfiles' = tmpfiles
            ELSE /\ Cardinality(tmpfiles) < MaxTmp
                 /\ tmpfiles' = tmpfiles \cup {FreshTemp}
                 /\ th' = [th EXCEPT ![t].pc = "save_upload", ![t].temp_path = FreshTemp]
  /\ UNCHANGED <<fs, pkl, selectors_cache, heap, constructions>>

\* Lines 627-629: audio_file.save(temp_file.name) inside the with block.
\* When it raises, the with block closes the file, which delete=False
\* keeps, and control goes to the handler's except: the try of line 631
\* with its finally is never entered.
SaveUpload(t) ==
  /\ th[t].pc = "save_upload"
  /\ \E raises \in BOOLEAN :
       th' = [th EXCEPT ![t] =
                IF raises THEN [@ EXCEPT !.pc = "done", !.resp = Error(500, "OSError")]
                ELSE [@ EXCEPT !.pc = "whisper_pipe"]]
  /\ UNCHANGED <<fs, pkl, selectors_cache, heap, constructions, tmpfiles>>

\* Lines 631-642: whisper_pipe transcribes the file, or raises; either
\* way control passes through the finally block before the response.
Transcribe(t) ==
  /\ th[t].pc = "whisper_pipe"
  /\ \E raises \in BOOLEAN :
       th' = [th EXCEPT ![t] =
                [@ EXCEPT !.pc = "finally",
                          !.resp = IF raises THEN Error(500, "RuntimeError")
                                   ELSE Ok("text", <<>>)]]
  /\ UNCHANGED <<fs, pkl, selectors_cache, heap, constructions, tmpfiles>>

\* Lines 644-647: the finally block unlinks the temporary file.
Finally(t) ==
  /\ th[t].pc = "finally"
  /\ tmpfiles' = tmpfiles \ {th[t].temp_path}
  /\ th' = [th EXCEPT ![t].pc = "done"]
  /\ UNCHANGED <<fs, pkl, selectors_cache, heap, constructions>>

\* The response is sent; the thread is free for the next request.
Respond(t) ==
  /\ th[t].pc = "done"
  /\ th' = [th EXCEPT ![t] = Idle]
  /\ heap' = Collect(heap, selectors_cache, th')
  /\ UNCHANGED <<fs, pkl, selectors_cache, constructions, tmpfiles>>

\* Somebody edits the default word-list file outside the service, between
\* two requests.
EditFile ==
  /\ \A t \in Threads : th[t].pc = "idle"
  /\ \E lines \in FileContents : fs' = [fs EXCEPT ![default_words_file] = lines]
  /\ UNCHANGED <<pkl, selectors_cache, heap, th, constructions, tmpfiles>>

\* The steps of a handler once its request has been accepted.
Handle(t) ==
  \/ get_selector(t)
  \/ _load_words(t)
  \/ _load_or_create_embeddings(t)
  \/ Encode(t)
  \/ OpenCache(t)
  \/ Dump(t)
  \/ Register(t)
  \/ get_relevant_words(t)
  \/ build_dictionary_from_pdf(t)
  \/ WriteWords(t)
  \/ Respond(t)

\* Requests handled one at a time, each to completion.
Next == Receive(1) \/ Handle(1) \/ EditFile
Spec == Init /\ [][Next]_vars

\* Requests handled by concurrent threads, interleaved at every step: the
\* first uses of the default dictionary and saves over it.
ConcRequests ==
  {FindReq(NoId, "wetter", 1), LoadReq(RelId(<<"B1">>)), BuildReq(<<"a">>, TRUE, TRUE)}

ReceiveConc(t) ==
  /\ th[t].pc = "idle"
  /\ \E r \in ConcRequests : th' = [th EXCEPT ![t] = Accept(t, r)]
  /\ UNCHANGED <<fs, pkl, selectors_cache, heap, constructions, tmpfiles>>

InitConc ==
  /\ Init
  /\ fs[default_words_file] \in {<<"a", "b">>, <<"b">>}
  /\ fs[external_words_file] = NoFile

NextConc == \E t \in Threads : ReceiveConc(t) \/ Handle(t)
SpecConc == InitConc /\ [][NextConc]_vars

\* find_relevant_words on a selector as get_selector returns it: constructed
\* from a word-list file and registered.
FindContexts == {"wetter", "nacht", "c"}

InitFind ==
  \E lines \in SeqsUpTo(Lines, MaxFindLines), c \in FindContexts, k \in 1..MaxTopK :
    LET words == StripNonBlank(lines)
        cache == _safe_cache_path_for(default_words_file)
    IN /\ fs = [p \in FilePaths |-> IF p = default_words_file THEN lines ELSE NoFile]
       /\ pkl = [q \in CachePaths |-> IF q = cache THEN Entry(words, encode(words)) ELSE NoCache]
       /\ selectors_cache = [p \in FilePaths |-> IF p = default_words_file THEN 1 ELSE 0]
       /\ heap = [i \in InstIds |->
                    IF i = 1 THEN Selector(default_words_file, cache, words, encode(words))
                    ELSE Free]
       /\ th = [t \in Threads |->
                  IF t = 1
                  THEN [Idle EXCEPT !.pc = "find_relevant_words", !.inst = 1,
                                    !.req = FindReq(NoId, c, k)]
                  ELSE Idle]
       /\ constructions = [p \in FilePaths |-> IF p = default_words_file THEN 1 ELSE 0]
       /\ tmpfiles = {}

NextFind == get_relevant_words(1) \/ Respond(1)
SpecFind == InitFind /\ [][NextFind]_vars

\* Resolution of every kind of identifier against every combination of
\* existing files, one request at a time: /embeddings/load by name,
\* /relevant-words on the default dictionary, and a build that saves B1.txt.
ResolveIdentifiers ==
  {RelId(<<"B1">>), RelId(<<"B1", ".txt">>), RelId(<<"C1">>),
   AbsId(CurDir, <<"B1", ".txt">>), AbsId(RootDir, <<"curated_words", ".txt">>),
   AbsId(ExtDir, <<"B1">>)}

ResolveRequests ==
  {LoadReq(f) : f \in ResolveIdentifiers}
  \cup {FindReq(NoId, "wetter", 1), BuildReq(<<"a">>, TRUE, TRUE)}

ReceiveResolve(t) ==
  /\ th[t].pc = "idle"
  /\ \E r \in ResolveRequests : th' = [th EXCEPT ![t] = Accept(t, r)]
  /\ UNCHANGED <<fs, pkl, selectors_cache, heap, constructions, tmpfiles>>

\* A word-list file with surrounding blanks, an empty line and a repeated
\* word.
RawLines == <<" a ", "", "a", "b">>

InitResolve ==
  /\ fs \in [FilePaths -> {NoFile, RawLines}]
  /\ pkl \in {[c \in CachePaths |-> NoCache], create_embeddings(fs)}
  /\ selectors_cache = [p \in FilePaths |-> 0]
  /\ heap = [i \in InstIds |-> Free]
  /\ th = [t \in Threads |-> Idle]
  /\ constructions = [p \in FilePaths |-> 0]
  /\ tmpfiles = {}

NextResolve == ReceiveResolve(1) \/ Handle(1)
SpecResolve == InitResolve /\ [][NextResolve]_vars

\* The uploads of /speech-to-text: no audio part, an empty filename, a
\* webm file, a wav file.
Audios == {"none", "unnamed", "webm", "wav"}

\* The steps of the handlers of the other endpoints.
HandleApi(t) ==
  \/ validate_phrase_endpoint(t)
  \/ get_words_by_topics(t)
  \/ analyze_with_suggestions(t)
  \/ embeddings_status(t)
  \/ list_dictionaries_endpoint(t)
  \/ health_check(t)

\* The steps of speech_to_text.
HandleSpeech(t) ==
  \/ speech_to_text(t)
  \/ SaveUpload(t)
  \/ Transcribe(t)
  \/ Finally(t)

\* Every endpoint, one request at a time: well-formed requests, requests
\* without a required field, a build for a PDF that is no file, and
\* requests during which a collaborator fails.
ApiDoc == <<Token("NOUN", "a"), Token("NOUN", "x")>>
\* The handlers that require a field of the JSON body, and the handlers that
\* call a collaborator that is not modelled as failing on its own.
JsonOps == {"find", "topics", "validate", "analyze", "build"}
FaultOps == JsonOps \cup {"load", "dictionaries"}
ApiWellFormed ==
  {FindReq(f, "wetter", 1) : f \in {NoId, RelId(<<"C1">>)}}
  \cup {LoadReq(f) : f \in {NoId, RelId(<<"B1">>), RelId(<<"C1">>)}}
  \cup {StatusReq(f) : f \in {NoId, RelId(<<"B1">>), RelId(<<"C1">>)}}
  \cup {BuildReq(<<"a">>, s, s) : s \in BOOLEAN}
  \cup {TopicsReq(NoId, cs, 1) : cs \in {<<>>, <<"wetter", "nacht">>}}
  \cup {ValidateReq(NoId, ApiDoc), AnalyzeReq(NoId, "wetter", ApiDoc, 1)}
  \cup {GetReq("dictionaries"), GetReq("health")}
  \cup {SpeechReq(a) : a \in Audios}
ApiRequests ==
  ApiWellFormed
  \cup {Invalid(r) : r \in {q \in ApiWellFormed : q.op \in JsonOps}}
  \cup {WithoutPdf(r) : r \in {q \in ApiWellFormed : q.op = "build"}}
  \cup {WithFault(r, f) : r \in {q \in ApiWellFormed : q.op \in FaultOps}, f \in Faults}

ReceiveApi(t) ==
  /\ th[t].pc = "idle"
  /\ \E r \in ApiRequests : th' = [th EXCEPT ![t] = Accept(t, r)]
  /\ UNCHANGED <<fs, pkl, selectors_cache, heap, constructions, tmpfiles>>

\* The cache files at the start: none, those create_embeddings wrote, or a
\* cache file of the default dictionary that an interrupted write left
\* incomplete.
InitApi ==
  /\ fs \in {f \in InitFiles : /\ f[default_words_file] \in {NoFile, <<"a", "b">>}
                               /\ f[external_words_file] = NoFile}
  /\ pkl \in {[c \in CachePaths |-> NoCache], create_embeddings(fs),
              [c \in CachePaths |->
                 IF c = _safe_cache_path_for(default_words_file) THEN Partial ELSE NoCache]}
  /\ selectors_cache = [p \in FilePaths |-> 0]
  /\ heap = [i \in InstIds |-> Free]
  /\ th = [t \in Threads |-> Idle]
  /\ constructions = [p \in FilePaths |-> 0]
  /\ tmpfiles = {}

NextApi == ReceiveApi(1) \/ Handle(1) \/ HandleApi(1) \/ HandleSpeech(1)
SpecApi == InitApi /\ [][NextApi]_vars

\* /speech-to-text on concurrent threads, for every kind of upload.
ReceiveSpeech(t) ==
  /\ th[t].pc = "idle"
  /\ \E a \in Audios : th' = [th EXCEPT ![t] = [@ EXCEPT !.pc = "speech", !.req = SpeechReq(a)]]
  /\ UNCHANGED <<fs, pkl, selectors_cache, heap, constructions, tmpfiles>>

InitSpeech ==
  /\ Init
  /\ fs = [p \in FilePaths |-> NoFile]

NextSpeech == \E t \in Threads : ReceiveSpeech(t) \/ HandleSpeech(t) \/ Respond(t)
SpecSpeech == InitSpeech /\ [][NextSpeech]_vars

\* validate_phrase on a selector as get_selector returns it, for every
\* phrase of at most MaxTokens tokens.
Docs == SeqsUpTo({Token(pos, lemma) : pos \in PosTags, lemma \in Lemmas}, MaxTokens)

InitValidate ==
  \E lines \in SeqsUpTo(SysWords, MaxLines), doc \in Docs :
    LET words == StripNonBlank(lines)
        cache == _safe_cache_path_for(default_words_file)
    IN /\ fs = [p \in FilePaths |-> IF p = default_words_file THEN lines ELSE NoFile]
       /\ pkl = [q \in CachePaths |-> IF q = cache THEN Entry(words, encode(words)) ELSE NoCache]
       /\ selectors_cache = [p \in FilePaths |-> IF p = default_words_file THEN 1 ELSE 0]
       /\ heap = [i \in InstIds |->
                    IF i = 1 THEN Selector(default_words_file, cache, words, encode(words))
                    ELSE Free]
       /\ th = [t \in Threads |->
                  IF t = 1
                  THEN [Idle EXCEPT !.pc = "validate_phrase", !.inst = 1,
                                    !.req = ValidateReq(NoId, doc)]
                  ELSE Idle]
       /\ constructions = [p \in FilePaths |-> IF p = default_words_file THEN 1 ELSE 0]
       /\ tmpfiles = {}

NextValidate == validate_phrase_endpoint(1) \/ Respond(1)
SpecValidate == InitValidate /\ [][NextValidate]_vars

\* lemmas_from_text inside build_dictionary_from_pdf, for every text of at
\* most MaxTokens tokens: words kept, words that differ in case only, a
\* short word, a lemma with a digit, lemmas with blanks, a word of another
\* part of speech, a stop word, a number word, punctuation and white space.
TextTokens ==
  {TextToken("", <<"a", "b", "c">>, "NOUN"),
   TextToken("", <<"A", "b", "c">>, "NOUN"),
   TextToken("", <<"a", "b", "d">>, "VERB"),
   TextToken("", <<"b", "a">>, "NOUN"),
   TextToken("", <<"a", "b", "1">>, "NOUN"),
   TextToken("", <<" ", "a", "b", " ">>, "VERB"),
   TextToken("", <<" ">>, "NOUN"),
   TextToken("", <<"a", "b", "c">>, "ADP"),
   TextToken("is_stop", <<"a", "b", "d">>, "VERB"),
   TextToken("like_num", <<"b", "a">>, "NOUN"),
   TextToken("is_punct", <<",">>, "PUNCT"),
   TextToken("is_space", <<" ">>, "SPACE")}
Texts == SeqsUpTo(TextTokens, MaxTokens)
MinLens == {2, 3}
AllowedPosSets == {DefaultPos, {"NOUN"}}

\* Lines 447-448: the text of the PDF is analysed; from here on the words
\* of the request are what lemmas_from_text returns.
ExtractLemmas(t) ==
  /\ th[t].pc = "lemmas_from_text"
  /\ th' = [th EXCEPT ![t].pc = "build",
                      ![t].req.words = lemmas_from_text(th[t].req.text, th[t].req.min_len,
                                                        th[t].req.allowed_pos)]
  /\ UNCHANGED <<fs, pkl, selectors_cache, heap, constructions, tmpfiles>>

InitLemmas ==
  /\ fs = [p \in FilePaths |-> NoFile]
  /\ pkl = [c \in CachePaths |-> NoCache]
  /\ selectors_cache = [p \in FilePaths |-> 0]
  /\ heap = [i \in InstIds |-> Free]
  /\ \E text \in Texts, min_len \in MinLens, allowed_pos \in AllowedPosSets :
       th = [t \in Threads |->
               IF t = 1
               THEN [Idle EXCEPT !.pc = "lemmas_from_text",
                                 !.req = [BuildReq(<<>>, FALSE, FALSE)
                                            EXCEPT !.text = text, !.min_len = min_len,
                                                   !.allowed_pos = allowed_pos]]
               ELSE Idle]
  /\ constructions = [p \in FilePaths |-> 0]
  /\ tmpfiles = {}

NextLemmas == ExtractLemmas(1) \/ build_dictionary_from_pdf(1) \/ Respond(1)
SpecLemmas == InitLemmas /\ [][NextLemmas]_vars

\* find_words_by_topics on a selector as get_selector returns it, for every
\* word list of at most MaxFindLines words and at most MaxTopics topics.
InitTopics ==
  \E words \in SeqsUpTo(Words, MaxFindLines),
     topics \in SeqsUpTo({"wetter", "nacht"}, MaxTopics),
     k \in 1..MaxTopK :
    LET cache == _safe_cache_path_for(default_words_file)
    IN /\ fs = [p \in FilePaths |-> IF p = default_words_file THEN words ELSE NoFile]
       /\ pkl = [q \in CachePaths |-> IF q = cache THEN Entry(words, encode(words)) ELSE NoCache]
       /\ selectors_cache = [p \in FilePaths |-> IF p = default_words_file THEN 1 ELSE 0]
       /\ heap = [i \in InstIds |->
                    IF i = 1 THEN Selector(default_words_file, cache, words, encode(words))
                    ELSE Free]
       /\ th = [t \in Threads |->
                  IF t = 1
                  THEN [Idle EXCEPT !.pc = "find_words_by_topics", !.inst = 1,
                                    !.req = TopicsReq(NoId, topics, k)]
                  ELSE Idle]
       /\ constructions = [p \in FilePaths |-> IF p = default_words_file THEN 1 ELSE 0]
       /\ tmpfiles = {}

NextTopics == get_words_by_topics(1) \/ Respond(1)
SpecTopics == InitTopics /\ [][NextTopics]_vars

\* /validate-phrase and /analyze-with-suggestions side by side on one
\* selector whose word list is "a": phrases of at most MaxPhrase tokens,
\* some with the lemma "a", the others with lemmas that are not in the list,
\* each different.
UnknownLemmas == <<"x", "y", "z">>
Phrase(known, unknown) ==
  [i \in 1..(known + unknown) |->
     Token("NOUN", IF i <= known THEN "a" ELSE UnknownLemmas[i - known])]
Phrases ==
  {Phrase(n[1], n[2]) :
     n \in {m \in (0..MaxPhrase) \X (0..Len(UnknownLemmas)) : m[1] + m[2] <= MaxPhrase}}

InitScore ==
  \E validated \in Phrases, analyzed \in Phrases :
    LET words == <<"a">>
        cache == _safe_cache_path_for(default_words_file)
    IN /\ fs = [p \in FilePaths |-> IF p = default_words_file THEN words ELSE NoFile]
       /\ pkl = [q \in CachePaths |-> IF q = cache THEN Entry(words, encode(words)) ELSE NoCache]
       /\ selectors_cache = [p \in FilePaths |-> IF p = default_words_file THEN 1 ELSE 0]
       /\ heap = [i \in InstIds |->
                    IF i = 1 THEN Selector(default_words_file, cache, words, encode(words))
                    ELSE Free]
       /\ th = [t \in Threads |->
                  IF t = 1
                  THEN [Idle EXCEPT !.pc = "validate_phrase", !.inst = 1,
                                    !.req = ValidateReq(NoId, validated)]
                  ELSE IF t = 2
                  THEN [Idle EXCEPT !.pc = "analyze", !.inst = 1,
                                    !.req = AnalyzeReq(NoId, "wetter", analyzed, 1)]
                  ELSE Idle]
       /\ constructions = [p \in FilePaths |-> IF p = default_words_file THEN 1 ELSE 0]
       /\ tmpfiles = {}

NextScore ==
  \E t \in Threads : validate_phrase_endpoint(t) \/ analyze_with_suggestions(t) \/ Respond(t)
SpecScore == InitScore /\ [][NextScore]_vars

\* ----------------------------------------------------------------- claims
Registered == {p \in FilePaths : selectors_cache[p] # 0}
Instance(p) == heap[selectors_cache[p]]
AllIdle == \A t \in Threads : th[t].pc = "idle"

\* C1: in every reachable state, every registered Selector Instance has as
\* many embedding rows as words (also during reload_from_disk and after a
\* reload whose embedding step failed).
C1_RowsEqualWords ==
  \A p \in Registered : Len(Instance(p).embeddings) = Len(Instance(p).words)

\* C1, at rest: the same with no request in flight. A reload whose encode
\* raised leaves the new word list beside the old matrix for good.
C1_RowsEqualWordsAtRest == AllIdle => C1_RowsEqualWords

\* The cache file of the object thread t works on, before the step.
CacheOf(t) == pkl[Self(t).cache_path]

\* _load_or_create_embeddings (or the dump that ends it) returns normally
\* in this step of thread t.
LoadReturns(t) ==
  /\ th[t].pc \in {"_load_or_create_embeddings", "dump"}
  /\ th'[t] # th[t]
  /\ th'[t].pc = "register" \/ (th'[t].pc = "done" /\ th'[t].resp.body = "saved")

Reloading(t, i) ==
  /\ th[t].reload /\ th[t].inst = i
  /\ th[t].req.op = "build" /\ th[t].req.save /\ th[t].req.refresh_embeddings
  /\ heap[i].curated_words_path = out_path

\* C3 as stated: every find_relevant_words runs on the word list of the
\* current file content and on a matrix built for it.
C3_AnsweredFromCurrentFile ==
  \A t \in Threads :
    th[t].pc = "find_relevant_words" =>
      /\ Self(t).words = StripNonBlank(fs[Self(t).curated_words_path])
      /\ Self(t).embeddings = encode(Self(t).words)

\* C3, amended: a change of the word-list file does not reach a registered
\* selector by itself. The word list of a registered selector changes only
\* in reload_from_disk, run by build_dictionary_from_pdf with save and
\* refresh_embeddings for the saved file, and then to the content of the
\* file; its matrix changes only in the same reload; and find_relevant_words
\* answers with words of the list the selector holds, current or not.
C3_StaleUntilReload ==
  [][/\ \A p \in Registered :
          LET i == selectors_cache[p]
          IN /\ heap'[i].words # heap[i].words =>
                  \E t \in Threads : /\ Reloading(t, i)
                                     /\ th[t].pc = "_load_words"
                                     /\ heap'[i].words = StripNonBlank(fs[p])
             /\ heap'[i].embeddings # heap[i].embeddings =>
                  \E t \in Threads : /\ Reloading(t, i)
                                     /\ th[t].pc \in {"_load_or_create_embeddings", "encode"}
     /\ \A t \in Threads :
          (th[t].pc = "find_relevant_words" /\ th'[t].resp.status = 200) =>
            SetOf(th'[t].resp.words) \subseteq SetOf(Self(t).words)]_vars

\* C3, reached: a find request is about to be answered by a registered
\* selector whose word list is not the content of its file.
C3_Witness ==
  \E t \in Threads :
    /\ th[t].pc = "find_relevant_words"
    /\ selectors_cache[Self(t).curated_words_path] = th[t].inst
    /\ Self(t).words # StripNonBlank(fs[Self(t).curated_words_path])

C5_ConcurrentFirstUse ==
  /\ \A t \in Threads :
       (th[t].pc = "done" /\ th[t].req.op \in {"find", "load"}) =>
         th[t].resp.error # "UnpicklingError"
  /\ AllIdle =>
       \A p \in Registered :
         pkl[Instance(p).cache_path] = Entry(Instance(p).words, Instance(p).embeddings)

\* C6 as stated: no object exists before a request refers to its file, and
\* SmartWordSelector(path) returns at most once per path, however the
\* requests interleave.
C6_AtMostOnce ==
  /\ \A p \in FilePaths : constructions[p] <= 1
  /\ \A i \in InstIds : heap[i] # Free => Referenced(selectors_cache, th, i)

\* The answer of a find request that thread t has produced.
Answered(t) == th[t].pc = "done" /\ th[t].req.op = "find"

\* cosine(context, w1) <= cosine(context, w2) for two words.
SimLeq(context, w1, w2) == CosLeq(Embed(context), Embed(w1), Embed(w2))

\* A sequence of words in non-increasing similarity to the context.
NonIncreasing(context, ws) ==
  \A i, j \in 1..Len(ws) : i < j => SimLeq(context, ws[j], ws[i])

Distinct(ws) == \A i, j \in 1..Len(ws) : i # j => ws[i] # ws[j]

\* C7 without distinctness: for top_k <= |W| the answer is a normal result
\* of exactly top_k entries at top_k different positions of W, in
\* non-increasing similarity, and no position left out is strictly more
\* similar than one that is returned.
C7_TopKPositions ==
  \A t \in Threads :
    (Answered(t) /\ th[t].req.top_k <= Len(Self(t).words)) =>
      LET W == Self(t).words
          R == th[t].resp.words
          c == th[t].req.context
      IN /\ th[t].resp.status = 200
         /\ Len(R) = th[t].req.top_k
         /\ NonIncreasing(c, R)
         /\ \E f \in [1..Len(R) -> 1..Len(W)] :
              /\ \A i, j \in 1..Len(R) : i # j => f[i] # f[j]
              /\ \A i \in 1..Len(R) : W[f[i]] = R[i]
              /\ \A n \in 1..Len(W) :
                   (\A i \in 1..Len(R) : f[i] # n) =>
                     \A i \in 1..Len(R) : SimLeq(c, W[n], R[i])

\* C7 as stated: for top_k <= |W| the answer has exactly top_k distinct
\* words of W, in non-increasing similarity, and no word left out is
\* strictly more similar than a word returned.
C7_TopKDistinct ==
  \A t \in Threads :
    (Answered(t) /\ th[t].req.top_k <= Len(Self(t).words)) =>
      LET W == Self(t).words
          R == th[t].resp.words
          c == th[t].req.context
      IN /\ th[t].resp.status = 200
         /\ Len(R) = th[t].req.top_k
         /\ Distinct(R)
         /\ SetOf(R) \subseteq SetOf(W)
         /\ NonIncreasing(c, R)
         /\ \A w \in SetOf(W) \ SetOf(R) : \A i \in 1..Len(R) : SimLeq(c, w, R[i])

\* C8: for a non-empty W and top_k > |W| the answer is a normal result that
\* holds every position of W exactly once (a rearrangement of W), in
\* non-increasing similarity.
C8_AllWords ==
  \A t \in Threads :
    (Answered(t) /\ Self(t).words # <<>> /\ th[t].req.top_k > Len(Self(t).words)) =>
      LET W == Self(t).words
          R == th[t].resp.words
      IN /\ th[t].resp.status = 200
         /\ Len(R) = Len(W)
         /\ \E f \in Permutations(1..Len(W)) : \A i \in 1..Len(W) : R[i] = W[f[i]]
         /\ NonIncreasing(th[t].req.context, R)

\* C8, reached: a find request with top_k above the size of a list of at
\* least two words of different similarity has been answered with the
\* whole list.
C8_Witness ==
  \E t \in Threads :
    /\ Answered(t) /\ th[t].resp.status = 200
    /\ th[t].req.top_k > Len(Self(t).words)
    /\ Len(th[t].resp.words) = Len(Self(t).words)
    /\ Len(Self(t).words) >= 2
    /\ ~SimLeq(th[t].req.context, th[t].resp.words[1], th[t].resp.words[2])

\* C9 as stated: on an empty word list find_relevant_words answers every
\* positive top_k with the empty sequence, a normal result.
C9_EmptyListEmptyResult ==
  \A t \in Threads :
    (Answered(t) /\ Self(t).words = <<>> /\ th[t].req.top_k > 0) =>
      th[t].resp = Ok("relevant_words", <<>>)

\* C10: with requests handled one at a time, a load or reload that finds a
\* cache file with the current word list leaves every cache file as it is
\* and does not go on to encode; one that finds a cache file with another
\* list (another word, another order) goes on to encode, and encode
\* computes the matrix of the whole current list; cache files are written
\* by nothing but the write that follows encode.
C10_UnchangedIsNoOp ==
  [][/\ \A t \in Threads :
          (th[t].pc = "_load_or_create_embeddings" /\ th'[t] # th[t]
           /\ CacheOf(t).st = "ok") =>
            IF CacheOf(t).words = Self(t).words
            THEN /\ pkl' = pkl
                 /\ th'[t].pc \notin {"encode", "open_cache", "dump"}
                 /\ th'[t].resp.error = ""
            ELSE th'[t].pc = "encode"
     /\ \A t \in Threads :
          (th[t].pc = "encode" /\ th'[t].pc = "open_cache") =>
            /\ heap'[th[t].inst].embeddings = encode(Self(t).words)
            /\ Len(heap'[th[t].inst].embeddings) = Len(Self(t).words)
     /\ pkl' # pkl => \E t \in Threads : th[t].pc \in {"open_cache", "dump"}]_vars

\* C10, reached: a load has found a cache file that holds the words of the
\* current list in another order, and is about to encode.
C10_Witness ==
  \E t \in Threads :
    /\ th[t].pc = "encode"
    /\ CacheOf(t).st = "ok"
    /\ SetOf(CacheOf(t).words) = SetOf(Self(t).words)
    /\ CacheOf(t).words # Self(t).words

\* The answer of a validate request that thread t has produced.
Validated(t) == th[t].pc = "done" /\ th[t].req.op = "validate" /\ th[t].resp.status = 200

\* The parts of speech the specification drops: punctuation, symbol,
\* other/unclassified, numeral, adposition.
DroppedPos == {"PUNCT", "SYM", "X", "NUM", "ADP"}

\* S: the set of lowercased lemmas of the tokens that are not dropped.
ContentLemmas(doc) ==
  {lower(doc[i].lemma_) : i \in {j \in 1..Len(doc) : doc[j].pos_ \notin DroppedPos}}

\* A fraction equals n / d.
Equals(percentage, n, d) == percentage.num * d = n * percentage.den

\* C11 as stated: validate returns 0 when S is empty and otherwise exactly
\* 100 |S /\ curated_set| / |S|, S the deduplicated lowercased lemmas of the
\* tokens that are no punctuation, symbol, other, numeral or adposition.
C11_PercentageOfLemmaSet ==
  \A t \in Threads :
    Validated(t) =>
      LET S == ContentLemmas(th[t].req.phrase)
          curated_set == SetOf(Self(t).words)
      IN IF S = {} THEN th[t].resp.percentage.num = 0
         ELSE Equals(th[t].resp.percentage,
                     100 * Cardinality(S \cap curated_set), Cardinality(S))

\* C11 on phrases without a numeral and without a repeated lemma among the
\* counted tokens: there the stated formula is what the code computes.
C11_WithoutNumeralsAndRepeats ==
  \A t \in Threads :
    LET doc == th[t].req.phrase
        counted == CountedTokens(doc)
    IN (/\ Validated(t)
        /\ \A i \in 1..Len(doc) : doc[i].pos_ # "NUM"
        /\ \A i, j \in 1..Len(counted) :
             i # j => lower(counted[i].lemma_) # lower(counted[j].lemma_)) =>
         LET S == ContentLemmas(doc)
             curated_set == SetOf(Self(t).words)
         IN IF S = {} THEN th[t].resp.percentage.num = 0
            ELSE Equals(th[t].resp.percentage,
                        100 * Cardinality(S \cap curated_set), Cardinality(S))

\* C12 as stated: validate returns a percentage within [0, 100], 0 for the
\* empty phrase and for a phrase without content words, and exactly 100
\* when every content lemma of the phrase is in the curated set.
C12_RangeZeroAndHundred ==
  \A t \in Threads :
    Validated(t) =>
      LET S == ContentLemmas(th[t].req.phrase)
          percentage == th[t].resp.percentage
      IN /\ AtLeast(percentage, 0) /\ percentage.num <= 100 * percentage.den
         /\ S = {} => percentage.num = 0
         /\ (S # {} /\ S \subseteq SetOf(Self(t).words)) => Equals(percentage, 100, 1)

\* C12 on phrases without a numeral: there it holds.
C12_WithoutNumerals ==
  \A t \in Threads :
    (Validated(t) /\ \A i \in 1..Len(th[t].req.phrase) : th[t].req.phrase[i].pos_ # "NUM") =>
      LET S == ContentLemmas(th[t].req.phrase)
          percentage == th[t].resp.percentage
      IN /\ AtLeast(percentage, 0) /\ percentage.num <= 100 * percentage.den
         /\ S = {} => percentage.num = 0
         /\ (S # {} /\ S \subseteq SetOf(Self(t).words)) => Equals(percentage, 100, 1)

\* C12, the range alone: it holds for every phrase.
C12_Range ==
  \A t \in Threads :
    Validated(t) =>
      /\ AtLeast(th[t].resp.percentage, 0)
      /\ th[t].resp.percentage.num <= 100 * th[t].resp.percentage.den

\* get_selector, in this step of thread t, resolves to path p: it returns
\* the object registered under p, or goes on to construct one for p.
ResolvesTo(t, p) ==
  /\ th'[t].resp.error = ""
  /\ IF selectors_cache[p] # 0
     THEN th'[t].inst = selectors_cache[p] /\ th'[t].pc \in {"find_relevant_words", "done"}
     ELSE th'[t].path = p /\ th'[t].pc = "_load_words"

\* get_selector, in this step of thread t, raises FileNotFoundError, and
\* neither the registry nor any object changes.
NotFound(t) ==
  /\ th'[t].pc = "done" /\ th'[t].resp.error = "FileNotFoundError"
  /\ th'[t].inst = 0
  /\ UNCHANGED <<selectors_cache, heap, constructions>>

\* C13: get_selector with an identifier takes it as an absolute path or
\* else under the curated directory, resolves to the literal name when that
\* is a file, otherwise to the name with ".txt" appended when that is a
\* file, and otherwise raises FileNotFoundError and registers nothing; an
\* object is registered under the path it was resolved to, so two
\* identifiers that resolve to one path get one key and one object.
C13_ResolveNamed ==
  [][\A t \in Threads :
       LET words_file == th[t].req.words_file
           literal == PathOf(IF words_file.abs THEN words_file.dir ELSE CurDir,
                             words_file.name)
           suffixed == PathOf(literal.dir, literal.name \o <<".txt">>)
           exists(p) == p \in FilePaths /\ fs[p] # NoFile
       IN /\ (th[t].pc = "get_selector" /\ th'[t] # th[t] /\ words_file # NoId) =>
               IF exists(literal) THEN ResolvesTo(t, literal)
               ELSE IF exists(suffixed) THEN ResolvesTo(t, suffixed)
               ELSE NotFound(t)
          /\ (th[t].pc = "register" /\ th'[t] # th[t]) =>
               /\ selectors_cache'[th[t].path] = th[t].inst
               /\ heap[th[t].inst].curated_words_path = th[t].path
               /\ \A p \in FilePaths \ {th[t].path} : selectors_cache'[p] = selectors_cache[p]]_vars

\* C13, reached: /embeddings/load with "B1", where B1 is no file and B1.txt
\* is one, has answered from the object registered under B1.txt.
C13_Witness ==
  \E t \in Threads :
    /\ th[t].pc = "done" /\ th[t].resp.body = "loaded"
    /\ th[t].req.words_file = RelId(<<"B1">>)
    /\ fs[literal_words_file] = NoFile
    /\ Self(t).curated_words_path = default_words_file
    /\ selectors_cache[default_words_file] = th[t].inst

\* C14: get_selector without an identifier resolves to the preferred
\* default file B1.txt when that is a file, otherwise to the legacy file
\* curated_words.txt when that is a file, and otherwise raises
\* FileNotFoundError; the object it returns is the one registered under that
\* path, the same one a resolve by identifier to that path returns.
C14_ResolveDefault ==
  [][\A t \in Threads :
       LET exists(p) == fs[p] # NoFile
       IN /\ (th[t].pc = "get_selector" /\ th'[t] # th[t] /\ th[t].req.words_file = NoId) =>
               IF exists(default_words_file) THEN ResolvesTo(t, default_words_file)
               ELSE IF exists(legacy_words_file) THEN ResolvesTo(t, legacy_words_file)
               ELSE NotFound(t)
          /\ (th[t].pc = "get_selector" /\ th'[t] # th[t] /\ th'[t].inst # 0) =>
               \E p \in Registered :
                 /\ th'[t].inst = selectors_cache[p]
                 /\ p = ResolvePath(fs, th[t].req.words_file)]_vars

\* C14, reached: with B1.txt missing, /relevant-words without words_file is
\* about to be answered by the one object registered under the legacy file.
C14_Witness ==
  \E t \in Threads :
    /\ th[t].pc = "find_relevant_words" /\ th[t].req.op = "find"
    /\ fs[default_words_file] = NoFile
    /\ Self(t).curated_words_path = legacy_words_file
    /\ selectors_cache[legacy_words_file] = th[t].inst
    /\ constructions[legacy_words_file] = 1

\* C15 as stated: when a speech-to-text request returns, the temporary
\* file it created, if any, is gone, on every exit path; so with every
\* request answered no temporary file is left.
C15_TempFileDeleted ==
  /\ \A t \in Threads :
       (th[t].pc = "done" /\ th[t].req.op = "speech" /\ th[t].temp_path # 0) =>
         th[t].temp_path \notin tmpfiles
  /\ AllIdle => tmpfiles = {}

\* C15 on the exit paths through the try of line 631: after a transcription
\* that succeeded or failed, the temporary file is gone.
C15_DeletedAfterTranscription ==
  \A t \in Threads :
    (/\ th[t].pc = "done" /\ th[t].req.op = "speech"
     /\ th[t].resp.body = "text" \/ th[t].resp.error = "RuntimeError") =>
      th[t].temp_path # 0 /\ th[t].temp_path \notin tmpfiles

\* The request of thread t is answered in this step.
Answers(t) == th[t].pc \notin {"idle", "done"} /\ th'[t].pc = "done"

\* The errors that tell that a referenced dictionary file or PDF is missing.
NotFoundErrors == {"FileNotFoundError", "Dictionary file not found", "File not found"}

\* A request without a required field.
LacksField(r) ==
  \/ ~r.valid
  \/ r.op \in {"load", "status"} /\ r.words_file = NoId
  \/ r.op = "speech" /\ r.audio \in {"none", "unnamed"}

\* C16 as stated: a request that refers to a dictionary file or a PDF that
\* does not exist is answered with 404, and a request without a required
\* field with 400.
C16_NotFoundIs404 ==
  \A t \in Threads :
    th[t].pc = "done" =>
      /\ th[t].resp.error \in NotFoundErrors => th[t].resp.status = 404
      /\ LacksField(th[t].req) => th[t].resp.status = 400

\* C16 without the requests that go through get_selector: a missing PDF and
\* a missing file of /embeddings/status are answered with 404, a missing
\* field with 400.
C16_Without_get_selector ==
  \A t \in Threads :
    th[t].pc = "done" =>
      /\ th[t].resp.error \in NotFoundErrors \ {"FileNotFoundError"} => th[t].resp.status = 404
      /\ LacksField(th[t].req) => th[t].resp.status = 400

\* The bodies an endpoint answers with when it succeeds.
ResultBodies(op) ==
  CASE op = "find" -> {"relevant_words"}
    [] op = "topics" -> {"relevant_words"}
    [] op = "validate" -> {"validation"}
    [] op = "analyze" -> {"analysis"}
    [] op = "load" -> {"loaded"}
    [] op = "status" -> {"status"}
    [] op = "dictionaries" -> {"dictionaries"}
    [] op = "health" -> {"healthy"}
    [] op = "build" -> {"words", "saved", "warning"}
    [] op = "speech" -> {"text"}
    [] OTHER -> {}

\* The order of the steps of a handler.
Rank(pc) ==
  CASE pc = "idle" -> 0
    [] pc \in {"get_selector", "build", "speech", "status", "dictionaries", "health"} -> 1
    [] pc \in {"write_words", "save_upload"} -> 2
    [] pc \in {"_load_words", "whisper_pipe"} -> 3
    [] pc \in {"_load_or_create_embeddings", "finally"} -> 4
    [] pc = "encode" -> 5
    [] pc = "open_cache" -> 6
    [] pc = "dump" -> 7
    [] pc = "register" -> 8
    [] pc \in {"find_relevant_words", "find_words_by_topics", "validate_phrase", "analyze"} -> 9
    [] OTHER -> 10

\* C17: every request of every endpoint, whatever fails on the way, is
\* answered with a JSON body that is either the endpoint's result, with
\* status 200 and no error field, or an error field with status 400, 404 or
\* 500; and a handler never goes back to a step (nothing is retried).
C17_ResultOrError ==
  [][\A t \in Threads :
       /\ Answers(t) =>
            LET resp == th'[t].resp
            IN \/ /\ resp.status = 200 /\ resp.error = ""
                  /\ resp.body \in ResultBodies(th[t].req.op)
               \/ /\ resp.status \in {400, 404, 500} /\ resp.error # ""
                  /\ resp.body = "error"
       /\ (th'[t] # th[t] /\ th[t].pc # "done") => Rank(th'[t].pc) > Rank(th[t].pc)
       /\ (th'[t] # th[t] /\ th[t].pc = "done") => th'[t] = Idle]_vars

\* C17, reached: /analyze-with-suggestions, with the lemmatizer failing
\* after the relevant words were found, has answered 500 with an error.
C17_Witness ==
  \E t \in Threads :
    /\ th[t].pc = "done" /\ th[t].req.op = "analyze" /\ th[t].req.fault = "lemmatizer"
    /\ th[t].resp = Error(500, "LemmatizerError")

\* The reload that build_dictionary_from_pdf started fails in this step of
\* thread t.
ReloadFails(t) ==
  /\ th[t].reload
  /\ th[t].pc \in {"_load_words", "_load_or_create_embeddings", "encode", "open_cache", "dump"}
  /\ th'[t].pc = "done" /\ th'[t].resp.body # "saved"

\* C18: when the reload after a save fails, the request is answered with
\* status 200 and no error field, with the words and a warning, and the
\* word-list file keeps the words that were saved.
C18_WarningNotFailure ==
  [][\A t \in Threads :
       ReloadFails(t) =>
         /\ th'[t].resp.status = 200 /\ th'[t].resp.error = ""
         /\ th'[t].resp.body = "warning" /\ th'[t].resp.warning # ""
         /\ th'[t].resp.words = th[t].req.words
         /\ fs'[out_path] = th[t].req.words]_vars

\* C18, reached: a build with save and refresh_embeddings has been answered
\* with a warning, and the file holds the non-empty list that was saved.
C18_Witness ==
  \E t \in Threads :
    /\ th[t].pc = "done" /\ th[t].req.op = "build"
    /\ th[t].req.save /\ th[t].req.refresh_embeddings
    /\ th[t].resp.status = 200 /\ th[t].resp.warning = "ServiceUnavailable"
    /\ th[t].req.words # <<>> /\ fs[out_path] = th[t].req.words

\* C19 as stated: when a build with save and refresh_embeddings is answered
\* without a warning, the cache file of the saved word list holds the saved
\* words and their matrix, whether or not a selector was registered for it.
C19_CacheRebuilt ==
  \A t \in Threads :
    (/\ th[t].pc = "done" /\ th[t].req.op = "build"
     /\ th[t].req.save /\ th[t].req.refresh_embeddings
     /\ th[t].resp.status = 200 /\ th[t].resp.warning = "") =>
      pkl[_safe_cache_path_for(out_path)] = Entry(th[t].req.words, encode(th[t].req.words))

\* C19 with a selector registered for the saved file: there the cache file
\* holds the saved words and their matrix.
C19_CacheRebuiltWhenRegistered ==
  \A t \in Threads :
    (/\ th[t].pc = "done" /\ th[t].req.op = "build"
     /\ th[t].req.save /\ th[t].req.refresh_embeddings
     /\ th[t].resp.status = 200 /\ th[t].resp.warning = ""
     /\ selectors_cache[out_path] # 0) =>
      pkl[_safe_cache_path_for(out_path)] = Entry(th[t].req.words, encode(th[t].req.words))

\* The words of a sequence in the order of their first occurrence.
RECURSIVE FirstOccurrences(_)
FirstOccurrences(ws) ==
  IF ws = <<>> THEN <<>>
  ELSE LET init == FirstOccurrences(SubSeq(ws, 1, Len(ws) - 1))
           last == ws[Len(ws)]
       IN IF last \in SetOf(init) THEN init ELSE Append(init, last)

\* C20 as stated: the word list of every object that has loaded its file
\* holds no blank entry and no word twice.
C20_NoBlankNoDuplicate ==
  \A i \in InstIds :
    heap[i] # Free => /\ \A n \in 1..Len(heap[i].words) : strip(heap[i].words[n]) # ""
                      /\ Distinct(heap[i].words)

\* C20 without the removal of duplicates: after _load_words the word list
\* holds no blank entry, and its first occurrences are those of the lines of
\* the file, in the order of the file.
C20_NoBlankFileOrder ==
  /\ \A i \in InstIds :
       heap[i] # Free => \A n \in 1..Len(heap[i].words) : strip(heap[i].words[n]) # ""
  /\ \A t \in Threads :
       th[t].pc = "_load_or_create_embeddings" =>
         LET lines == fs[Self(t).curated_words_path]
             stripped == [n \in 1..Len(lines) |-> strip(lines[n])]
         IN FirstOccurrences(Self(t).words)
              = FirstOccurrences(SelectSeq(stripped, LAMBDA w : w # ""))

\* The persisted cache entry of the dictionary registered under q: the file
\* under q's cache path holds the word list and matrix of q's selector.
PersistedFor(q) ==
  /\ selectors_cache[q] # 0
  /\ pkl[_safe_cache_path_for(q)] = Entry(Instance(q).words, Instance(q).embeddings)

\* C21 as stated: two different word-list files never have the same cache
\* path, so no selector opens for writing the cache file that holds the
\* persisted entry of a dictionary registered under another path.
C21_NoSharedCache ==
  [][\A t \in Threads : \A q \in FilePaths :
       (/\ th[t].pc = "open_cache" /\ th'[t].pc = "dump"
        /\ Self(t).curated_words_path # q
        /\ PersistedFor(q)) =>
         /\ Self(t).cache_path # _safe_cache_path_for(q)
         /\ pkl'[_safe_cache_path_for(q)] = pkl[_safe_cache_path_for(q)]]_vars

\* C21 for files with different base names: their cache paths differ, and
\* files with the same base name, whatever their directory or extension,
\* have the same cache path.
C21_DistinctBaseNames ==
  \A p, q \in FilePaths :
    (isfile(fs, p) /\ isfile(fs, q)) =>
      (_safe_cache_path_for(p) = _safe_cache_path_for(q) <=> Head(p.name) = Head(q.name))

\* The request of thread t went through lemmas_from_text and its words are
\* what lemmas_from_text returned.
Extracted(t) ==
  /\ th[t].req.op = "build"
  /\ th[t].pc \in {"build", "done"}
  /\ th[t].req.text # <<>>

\* C22: what lemmas_from_text returns is in strictly increasing
\* lexicographic order (sorted, no word twice), and each element is
\* lower-case, purely alphabetic, at least min_len long, and the stripped
\* lower-case lemma of a token of the text that is neither white space nor
\* punctuation nor number-like nor a stop word and whose part of speech is
\* in allowed_pos. The words the handler answers with are that sequence.
C22_SortedContentLemmas ==
  \A t \in Threads :
    Extracted(t) =>
      LET words == th[t].req.words
          text == th[t].req.text
      IN /\ \A i \in 1..(Len(words) - 1) : StrLess(words[i], words[i + 1])
         /\ \A i \in 1..Len(words) :
              /\ \A n \in 1..Len(words[i]) : words[i][n] \in Letters \ {"A"}
              /\ words[i] # <<>>
              /\ Len(words[i]) >= th[t].req.min_len
              /\ \E j \in 1..Len(text) :
                   /\ ~text[j].is_space /\ ~text[j].is_punct
                   /\ ~text[j].like_num /\ ~text[j].is_stop
                   /\ text[j].pos_ \in th[t].req.allowed_pos
                   /\ str_strip(str_lower(text[j].lemma_)) = words[i]
         /\ (th[t].pc = "done" /\ th[t].resp.status = 200) => th[t].resp.words = words

\* A text with a capitalised repeat of a word and tokens that are dropped
\* has been answered with two lemmas, the lemma "abc" among them once.
C22_Witness ==
  \E t \in Threads :
    /\ Extracted(t) /\ th[t].pc = "done"
    /\ Len(th[t].resp.words) = 2
    /\ th[t].resp.words[1] = <<"a", "b", "c">>
    /\ \E i, j, k \in 1..Len(th[t].req.text) :
         /\ th[t].req.text[i].lemma_ = <<"a", "b", "c">> /\ th[t].req.text[i].pos_ = "NOUN"
         /\ th[t].req.text[j].lemma_ = <<"A", "b", "c">>
         /\ th[t].req.text[k].lemma_ \in {<<"a", "b", "d">>, <<"b", "a">>}
         /\ ~th[t].req.text[k].is_stop /\ ~th[t].req.text[k].like_num

\* The outcomes of the call find_relevant_words(topic, words_per_topic) for
\* the i-th topic of the topics request of thread t.
TopicOutcomes(t, i) ==
  find_relevant_words(Self(t).words, Self(t).embeddings, th[t].req.topics[i], th[t].req.top_k)

\* The sets of words that call can return.
TopicWords(t, i) == {SetOf(out.value) : out \in {o \in TopicOutcomes(t, i) : o.ok}}

\* all is the union of some so_far and one set of each element of returned,
\* a sequence of sets of sets.
RECURSIVE IsUnionOf(_, _, _)
IsUnionOf(all, returned, so_far) ==
  IF returned = <<>> THEN all = so_far
  ELSE \E s \in Head(returned) :
         s \subseteq all /\ IsUnionOf(all, Tail(returned), so_far \cup s)

\* C23: when /words-by-topics answers 200, its words are the union of what
\* find_relevant_words returns for each topic, each word once; without
\* topics there are no words; count is the number of distinct words; and
\* it answers 500 only when find_relevant_words raises for a topic.
C23_UnionOfTopics ==
  \A t \in Threads :
    (th[t].pc = "done" /\ th[t].req.op = "topics") =>
      LET n == Len(th[t].req.topics)
          returned == [i \in 1..n |-> TopicWords(t, i)]
      IN IF th[t].resp.status = 200
         THEN /\ Distinct(th[t].resp.words)
              /\ IsUnionOf(SetOf(th[t].resp.words), returned, {})
              /\ n = 0 => th[t].resp.words = <<>>
              /\ th[t].resp.count = Cardinality(SetOf(th[t].resp.words))
         ELSE \E i \in 1..n : \E out \in TopicOutcomes(t, i) : ~out.ok

\* Two topics whose two most similar words overlap in one word have been
\* answered with three words.
C23_Witness ==
  \E t \in Threads :
    /\ th[t].pc = "done" /\ th[t].req.op = "topics" /\ th[t].resp.status = 200
    /\ Len(th[t].req.topics) = 2 /\ th[t].req.top_k = 2
    /\ th[t].resp.count = 3
    /\ \E first \in TopicWords(t, 1), second \in TopicWords(t, 2) :
         /\ Cardinality(first) = 2 /\ Cardinality(second) = 2
         /\ first \cap second # {}
         /\ SetOf(th[t].resp.words) = first \cup second

\* Thread t has answered /validate-phrase or /analyze-with-suggestions
\* with a percentage and a score.
Scored(t) ==
  /\ th[t].pc = "done" /\ th[t].resp.status = 200
  /\ th[t].resp.body \in {"validation", "analysis"}

\* C24: the score reported with a percentage is "excellent" exactly from
\* 90 on, "good" from 70 to below 90, "fair" from 50 to below 70 and "poor"
\* below 50; two answers with the same percentage, from either endpoint,
\* have the same score.
C24_ScoreOfPercentage ==
  /\ \A t \in Threads :
       Scored(t) =>
         LET p == th[t].resp.percentage
             score == th[t].resp.score
         IN /\ p.den > 0
            /\ score = "excellent" <=> p.num >= 90 * p.den
            /\ score = "good" <=> (p.num >= 70 * p.den /\ p.num < 90 * p.den)
            /\ score = "fair" <=> (p.num >= 50 * p.den /\ p.num < 70 * p.den)
            /\ score = "poor" <=> p.num < 50 * p.den
  /\ \A t, u \in Threads :
       (/\ Scored(t) /\ Scored(u)
        /\ th[t].resp.percentage.num * th[u].resp.percentage.den
             = th[u].resp.percentage.num * th[t].resp.percentage.den) =>
         th[t].resp.score = th[u].resp.score

\* /validate-phrase has answered a phrase of nine listed words in ten with
\* "excellent" and /analyze-with-suggestions a phrase of seven in ten
\* with "good".
C24_Witness ==
  \E t, u \in Threads :
    /\ Scored(t) /\ th[t].req.op = "validate"
    /\ Len(th[t].req.phrase) = 10
    /\ th[t].resp.percentage.num = 90 * th[t].resp.percentage.den
    /\ th[t].resp.score = "excellent"
    /\ Scored(u) /\ th[u].req.op = "analyze"
    /\ Len(th[u].req.phrase) = 10
    /\ th[u].resp.percentage.num = 70 * th[u].resp.percentage.den
    /\ th[u].resp.score = "good"

\* Thread t takes the step of an inspection endpoint: GET
\* /embeddings/status, GET /dictionaries or GET /health.
Inspects(t) ==
  /\ th[t].pc \in {"status", "dictionaries", "health"}
  /\ th'[t] # th[t]

\* C25: the step of an inspection endpoint answers the request and leaves
\* the registry, every selector object, every cache file and every
\* word-list file as they are; /embeddings/status reports the file the name
\* resolves to as in memory, and /dictionaries each ".txt" file of the
\* curated directory, exactly when the registry has an entry under its
\* path; /health reports the names of the registered paths and their number.
C25_InspectionOnly ==
  [][\A t \in Threads :
       Inspects(t) =>
         /\ th'[t].pc = "done"
         /\ selectors_cache' = selectors_cache /\ heap' = heap
         /\ pkl' = pkl /\ fs' = fs /\ constructions' = constructions
         /\ th'[t].resp.status = 200 =>
              /\ \A p \in th'[t].resp.listed :
                   p \in th'[t].resp.in_memory <=> selectors_cache[p] # 0
              /\ th'[t].resp.in_memory \subseteq th'[t].resp.listed
              /\ th[t].pc = "status" =>
                   th'[t].resp.listed = {ResolvePath(fs, th[t].req.words_file)}
              /\ th[t].pc = "dictionaries" =>
                   (default_words_file \in th'[t].resp.listed
                      <=> isfile(fs, default_words_file))
              /\ th[t].pc = "health" =>
                   /\ th'[t].resp.loaded_levels = {p.name : p \in Registered}
                   /\ th'[t].resp.count = Cardinality(Registered)]_vars

\* /embeddings/status has reported a registered dictionary, whose cache
\* file exists, as in memory.
C25_Witness ==
  \E t \in Threads :
    /\ th[t].pc = "done" /\ th[t].req.op = "status" /\ th[t].resp.status = 200
    /\ th[t].resp.listed = {default_words_file}
    /\ th[t].resp.in_memory = {default_words_file}
    /\ selectors_cache[default_words_file] # 0
    /\ pkl[_safe_cache_path_for(default_words_file)].st = "ok"

\* /dictionaries has listed the default dictionary as not in memory while
\* its cache file exists.
C25_WitnessNotLoaded ==
  \E t \in Threads :
    /\ th[t].pc = "done" /\ th[t].req.op = "dictionaries" /\ th[t].resp.status = 200
    /\ th[t].resp.listed = {default_words_file}
    /\ th[t].resp.in_memory = {}
    /\ pkl[_safe_cache_path_for(default_words_file)].st = "ok"

\* Thread t is inside get_selector: resolving, looking up, or constructing
\* a new object (not reloading a registered one).
InGetSelector(t) ==
  /\ th[t].pc \in {"get_selector", "_load_words", "_load_or_create_embeddings",
                   "encode", "open_cache", "dump", "register"}
  /\ ~th[t].reload

\* get_selector raises in this step of thread t.
GetSelectorFails(t) ==
  InGetSelector(t) /\ th'[t].pc = "done" /\ th'[t].resp.status = 500

\* get_selector returns an object to the handler in this step of thread t.
GetSelectorReturns(t) ==
  /\ th[t].pc \in {"get_selector", "register"}
  /\ th'[t] # th[t] /\ th'[t].inst # 0
  /\ th'[t].pc \notin {"_load_words", "_load_or_create_embeddings"}

\* C26: with requests handled one at a time, the registry changes only when
\* a constructor has returned, and the object stored then has the word list
\* of its file and a matrix with a row for each word; a step in which
\* get_selector raises leaves the registry as it is and hands no object to
\* the handler; get_selector constructs whenever the registry has no entry
\* for the path, so after a failure the next request tries again; and every
\* object get_selector returns is registered and has a matrix.
C26_RegisteredWhenConstructed ==
  [][/\ \A p \in FilePaths :
          selectors_cache'[p] # selectors_cache[p] =>
            \E t \in Threads :
              /\ th[t].pc = "register" /\ th[t].path = p
              /\ selectors_cache'[p] = th[t].inst
              /\ Self(t).curated_words_path = p
              /\ Self(t).words = StripNonBlank(fs[p])
              /\ Self(t).embeddings # None
              /\ Len(Self(t).embeddings) = Len(Self(t).words)
     /\ \A t \in Threads :
          /\ GetSelectorFails(t) =>
               /\ selectors_cache' = selectors_cache
               /\ th'[t].inst = 0
               /\ th[t].path # NoPath => selectors_cache'[th[t].path] = 0
          /\ (/\ th[t].pc = "get_selector" /\ th'[t] # th[t]
              /\ ResolvePath(fs, th[t].req.words_file) # NoPath
              /\ selectors_cache[ResolvePath(fs, th[t].req.words_file)] = 0) =>
               th'[t].pc = "_load_words"
          /\ GetSelectorReturns(t) =>
               /\ heap'[th'[t].inst].embeddings # None
               /\ selectors_cache'[heap'[th'[t].inst].curated_words_path] = th'[t].inst]_vars

\* A construction has failed on an incomplete cache file after the word
\* list was read: the request is answered 500, the registry is empty and no
\* object is left.
C26_Witness ==
  \E t \in Threads :
    /\ th[t].pc = "done" /\ th[t].resp.status = 500
    /\ th[t].resp.error = "UnpicklingError"
    /\ th[t].path = default_words_file /\ th[t].inst = 0
    /\ Registered = {}
    /\ \A i \in InstIds : heap[i] = Free

\* A construction has failed in the embedding step, and one in reading the
\* file, with the registry left empty.
C26_WitnessOtherFailures ==
  \E t \in Threads :
    /\ th[t].pc = "done" /\ th[t].resp.status = 500
    /\ th[t].resp.error \in {"ServiceUnavailable", "OSError"}
    /\ th[t].path = default_words_file /\ th[t].inst = 0
    /\ Registered = {}

\* C26 with concurrent requests, where a word-list file can change between
\* its reading and the registration and another thread can register the same
\* path: the registry still changes only when a constructor has returned an
\* object with a matrix, a failing get_selector leaves it as it is, and
\* every object get_selector returns is registered and has a matrix.
C26_RegisteredWhenConstructedConcurrently ==
  [][/\ \A p \in FilePaths :
          selectors_cache'[p] # selectors_cache[p] =>
            \E t \in Threads :
              /\ th[t].pc = "register" /\ th[t].path = p
              /\ selectors_cache'[p] = th[t].inst
              /\ Self(t).curated_words_path = p
              /\ Self(t).embeddings # None
              /\ Len(Self(t).embeddings) = Len(Self(t).words)
     /\ \A t \in Threads :
          /\ GetSelectorFails(t) => (selectors_cache' = selectors_cache /\ th'[t].inst = 0)
          /\ GetSelectorReturns(t) =>
               /\ heap'[th'[t].inst].embeddings # None
               /\ selectors_cache'[heap'[th'[t].inst].curated_words_path] = th'[t].inst]_vars

====
